---------------------------- MODULE Spec2Model ----------------------------
(***************************************************************************)
(* Model of the papercuts mutation-and-consolidation engine (pc_core.py,   *)
(* ec.py): RewriteSet index allocation, the main() pipeline that locates   *)
(* sites, builds one Run per branch, drives the prover jobs through an     *)
(* asyncio.Semaphore, writes the summary and consolidates the Runs.        *)
(* Further specifications cover RewriteSet.apply_muxes and Rewrite.apply   *)
(* on their own, ternary.remove_ternaries, shrink_bits_mux, the mutation   *)
(* flags of main(), its artifact writes, consolidate_runs called twice,    *)
(* find_module_decl, and run_jasper at the grain of single lines.          *)
(*                                                                         *)
(* A design is a sequence of syntax nodes.  A node is a record             *)
(*   [kind, else, src, part, parent, pos]                                  *)
(* kind/else say which construct the node was parsed as (an if statement   *)
(* with or without an else clause, or a ternary expression), src is the    *)
(* position of that construct in the base design (its identity), and part  *)
(* says which text the node now holds: "whole" for the untouched           *)
(* construct, otherwise the branch it was replaced by ("gone": the node    *)
(* sat in text that a replacement of an enclosing construct dropped).      *)
(* parent is the src of the nearest enclosing construct (0: none) and pos  *)
(* the part of the parent the node sits in.  The port list of    *)
(* the module header is a sequence of declarations [decl, names].          *)
(***************************************************************************)
EXTENDS Integers, Sequences, FiniteSets, TLC

\* ------------------------------------------------------------------ bounds
MaxSites == 2        \* constructs in the base design
MaxLines == 1        \* lines a prover subprocess prints
PoolCap == 2         \* value of the semaphore (32 in the source), scaled
MaxRewrites == 3     \* rewrites per RewriteSet in the RewriteSet specification
CondWidth == 2       \* bits of a condition expression
MaxTernaries == 2    \* ternary expressions in a source text (ternary.py)
MaxMsb == 3          \* largest bound of a packed dimension
MaxNodes == 4        \* nodes and tokens of a syntax tree (find_module_decl)

VARIABLES
    pc,          \* position of main()
    args,        \* parsed command line flags
    sw,          \* the concretized base design
    rewrites,    \* main's RewriteSet
    muxed_tree,  \* the mux-encoded design
    runs,        \* main's list of Run objects
    tpc,         \* position of each run_with_limit task
    sem,         \* the asyncio.Semaphore: [value, waiters]
    stdout,      \* what consolidate_runs printed (warnings)
    successes,   \* the summary written to equivalence_results.txt
    consolidated,\* the tree written to <fname>_consolidated.sv
    sets,        \* RewriteSet objects of the RewriteSet specification
    overtook,    \* history: some Run finished before an earlier-submitted one
    applied,     \* the last Rewrite.apply call of the apply specification
    tern,        \* ternary.remove_ternaries: its input, locals and result
    shrink,      \* shrink_bits_mux: its input, the tree between the two
                 \* passes, the identifiers collected, and its result
    files,       \* the output artifacts: which writes succeeded, failed,
                 \* were logged, and whether main() was aborted by one
    module_decl, \* find_module_decl: the syntax tree, the node of the
                 \* current call, and how the outermost call ended
    process      \* run_jasper, per Run: the subprocess (lines emitted, its
                 \* pipe, its exit) and the coroutine's local `output`

vars == <<pc, args, sw, rewrites, muxed_tree, runs, tpc, sem, stdout,
          successes, consolidated, sets, overtook, applied, tern, shrink, files, module_decl, process>>

mainVars == <<pc, args, sw, rewrites, muxed_tree, runs, tpc, sem, stdout,
              successes, consolidated, overtook, applied, tern, shrink, files, module_decl, process>>

\* ----------------------------------------------------------------- helpers
RECURSIVE SumSel(_)
SumSel(s) == IF s = <<>> THEN 0
             ELSE s[1].num_selections + SumSel(Tail(s))

Prefix(s, n) == SubSeq(s, 1, n)

\* ------------------------------------------------------- Rewrite, RewriteSet
\* dataclass Rewrite: the fields the engine reads.  kind names the category
\* whose closures (get_replacement, get_mux_replacement) the Rewrite carries,
\* target the node its matcher closes over.
NewRewrite(kind, target, n) ==
    [kind |-> kind, target |-> target, num_selections |-> n, start_index |-> 0]

EmptyRewriteSet == [rewrites |-> <<>>, current_index |-> 0]

\* add_rewrite advancing the total by one per rewrite instead of by its
\* num_selections.
add_rewrite_advances_by_one(rs, rw) ==
    [rewrites |-> Append(rs.rewrites, [rw EXCEPT !.start_index = rs.current_index]),
     current_index |-> rs.current_index + 1]

add_rewrite(rs, rw) ==
    [rewrites |-> Append(rs.rewrites, [rw EXCEPT !.start_index = rs.current_index]),
     current_index |-> rs.current_index + rw.num_selections]

\* RewriteSet(rewrites=self.rewrites + other.rewrites): current_index takes
\* its dataclass default and no start_index is reassigned.
merge(a, b) == [rewrites |-> a.rewrites \o b.rewrites, current_index |-> 0]

\* ------------------------------------------------------------ syntax trees
NoTree == [name |-> <<>>, nodes |-> <<>>]

\* The constructs a base design is made of.
NodeShapes == {[kind |-> "if", else |-> FALSE],
               [kind |-> "if", else |-> TRUE],
               [kind |-> "ternary", else |-> FALSE]}

\* Port lists of a base design: `module m ();` and `module m (input a);`.
PortLists == {<<>>, <<[decl |-> "input", names |-> <<"a">>]>>}

Designs ==
    UNION {{[name |-> <<"m">>,
             ports |-> p,
             nodes |-> [i \in 1..n |->
                          [kind |-> f[i].kind, else |-> f[i].else,
                           src |-> i, part |-> "whole",
                           parent |-> 0, pos |-> "top"]]] :
              f \in [1..n -> NodeShapes], p \in PortLists} : n \in 0..MaxSites}

\* The parts of a construct another construct can sit in.
Positions(shape) ==
    IF shape.kind = "ternary" THEN {"predicate", "left", "right"}
    ELSE {"predicate", "statement"} \cup (IF shape.else THEN {"elseClause"} ELSE {})

\* A statement cannot sit inside an expression.
CanHold(outer, pos, inner) ==
    /\ pos \in Positions(outer)
    /\ inner.kind = "if" => (outer.kind = "if" /\ pos # "predicate")

\* Designs whose constructs may contain one another.  Nodes are listed in
\* the order the visitor meets them: a construct before what it contains.
Nestings(f, n) ==
    {h \in [1..n -> [parent : 0..(n - 1),
                     pos : {"top", "predicate", "statement",
                            "elseClause", "left", "right"}]] :
        \A i \in 1..n :
           /\ h[i].parent < i
           /\ h[i].parent = 0 <=> h[i].pos = "top"
           /\ h[i].parent # 0 => CanHold(f[h[i].parent], h[i].pos, f[i])}

NestedDesignsOf(n) ==
    UNION {{[name |-> <<"m">>,
             ports |-> <<>>,
             nodes |-> [i \in 1..n |->
                          [kind |-> f[i].kind, else |-> f[i].else,
                           src |-> i, part |-> "whole",
                           parent |-> g[i].parent, pos |-> g[i].pos]]] :
              g \in Nestings(f, n)} : f \in [1..n -> NodeShapes]}

NestedDesigns == UNION {NestedDesignsOf(n) : n \in 0..MaxSites}

\* A matcher that compares the shape of the construct, not its identity.
matcher_by_shape(rw, node) == node.part = "whole" /\ node.kind = rw.kind

\* make_matcher(target): node == target, the identity of a node of the tree
\* the sites were located in.
matcher(rw, node) == node.part = "whole" /\ node.src = rw.target

\* remove_if_conditionals.get_replacement(node, use_else)
if_get_replacement(node, use_else) ==
    IF use_else
    THEN IF node.else THEN [node EXCEPT !.part = "elseClause"]
                      ELSE [node EXCEPT !.part = "trivia"]
    ELSE [node EXCEPT !.part = "statement"]

\* remove_ternary_conditionals.get_replacement(node, use_left)
ternary_get_replacement(node, use_left) ==
    IF use_left THEN [node EXCEPT !.part = "left"]
                ELSE [node EXCEPT !.part = "right"]

get_replacement(rw, node, flag) ==
    IF rw.kind = "if" THEN if_get_replacement(node, flag)
                      ELSE ternary_get_replacement(node, flag)

\* The part of construct t that node j sits in: pos of the node on j's
\* parent chain whose parent is t ("top" when t does not enclose j).
RECURSIVE PartHolding(_, _, _)
PartHolding(tree, j, t) ==
    IF tree.nodes[j].parent = 0 THEN "top"
    ELSE IF tree.nodes[j].parent = t THEN tree.nodes[j].pos
    ELSE PartHolding(tree, tree.nodes[j].parent, t)

\* The nodes of the tree that a rewrite's matcher accepts.
Matched(rw, tree) == {i \in DOMAIN tree.nodes : matcher(rw, tree.nodes[i])}

\* Rewrite.apply(tree, index): the handler replaces every node the matcher
\* accepts.  What sat inside a replaced node is in the result only as far as
\* the replacement's text contains it.
apply(rw, tree, index) ==
    LET repl(t) == IF index = 0 THEN tree.nodes[t]
                   ELSE IF index = 1 THEN get_replacement(rw, tree.nodes[t], FALSE)
                   ELSE get_replacement(rw, tree.nodes[t], TRUE)
        dropped(j) == \E t \in Matched(rw, tree) :
                         /\ repl(t).part # "whole"
                         /\ PartHolding(tree, j, t) \notin {"top", repl(t).part}
    IN  [tree EXCEPT !.nodes =
            [j \in DOMAIN tree.nodes |->
                IF dropped(j) THEN [tree.nodes[j] EXCEPT !.part = "gone"]
                ELSE IF j \in Matched(rw, tree) THEN repl(j)
                ELSE tree.nodes[j]]]

rename_module(tree, new_name) == [tree EXCEPT !.name = new_name]

\* The nodes a category's visitor collects, in traversal order.
SitesOf(tree, kind) == SelectSeq(tree.nodes, LAMBDA n : n.kind = kind)

\* The loop of remove_if_conditionals / remove_ternary_conditionals: one
\* add_rewrite per collected node.
RECURSIVE AddSites(_, _, _)
AddSites(rs, nodes, kind) ==
    IF nodes = <<>> THEN rs
    ELSE AddSites(add_rewrite(rs, NewRewrite(kind, nodes[1].src, 2)),
                  Tail(nodes), kind)

remove_if_conditionals(tree, rs) == AddSites(rs, SitesOf(tree, "if"), "if")

remove_ternary_conditionals(tree, rs) ==
    AddSites(rs, SitesOf(tree, "ternary"), "ternary")

\* ------------------------------------------------------------ mux encoding
\* make_mux_matcher(target): node == target.predicate.  The predicate of a
\* located construct is addressed through the construct that owns it.
mux_matcher(rw, node) == node.part = "whole" /\ node.src = rw.target

\* remove_if_conditionals.get_mux_replacement(node, sel_index): the guard
\* (pc_sel{sel_index+1} | (!pc_sel{sel_index} & (<node>))) around the text of
\* the matched predicate.
if_get_mux_replacement(node, sel_index) ==
    [raised |-> FALSE, hi |-> sel_index + 1, lo |-> sel_index, wraps |-> node.src]

\* remove_ternary_conditionals.get_mux_replacement(node, sel_index) reads
\* node.predicate, but the node the mux matcher accepted is itself the
\* ConditionalPredicateSyntax, a class with `conditions` and no `predicate`
\* (src/astdump.py:70-73): the attribute access raises AttributeError.
ternary_get_mux_replacement(node, sel_index) ==
    [raised |-> TRUE, hi |-> sel_index + 1, lo |-> sel_index, wraps |-> node.src]

get_mux_replacement(rw, node, sel_index) ==
    IF rw.kind = "if" THEN if_get_mux_replacement(node, sel_index)
                      ELSE ternary_get_mux_replacement(node, sel_index)

\* The value of the text get_mux_replacement builds,
\*   (pc_sel{hi} | (!pc_sel{lo} & (<condition>)))
\* as the language evaluates it: `!` gives one bit, `|` and `&` are bitwise
\* over operands zero-extended to the widest one, here the condition's
\* CondWidth bits.  hi, lo are the values of the two selects, c the value of
\* the original condition.
RECURSIVE Bitwise(_, _, _, _)
Bitwise(op, a, b, w) ==
    IF w = 0 THEN 0
    ELSE (IF op = "&" THEN (a % 2) * (b % 2)
                      ELSE IF (a % 2) + (b % 2) > 0 THEN 1 ELSE 0)
         + 2 * Bitwise(op, a \div 2, b \div 2, w - 1)

eval_mux_guard(hi, lo, c) ==
    Bitwise("|", hi, Bitwise("&", 1 - lo, c, CondWidth), CondWidth)

\* A condition (of an if or a ternary) holds when its value is not zero.
Truthy(v) == v # 0

CondValues == 0 .. (2 ^ CondWidth - 1)

\* The rewrites of rs whose mux matcher accepts the node, in registration order.
MuxMatches(rs, node) == SelectSeq(rs.rewrites, LAMBDA rw : mux_matcher(rw, node))

\* The handler calls rewriter.replace(node, ...) once per matching rewrite.
\* What a second replace of the same node does is the rewriter's business
\* and is not fixed by this repository: the first replacement stays, the
\* last one takes its place, or the call raises.
ReplaceTwice == {"first", "last", "raise"}

\* An exception raised by a handler call leaves syntax.rewrite.
apply_muxes_raises(rs, tree, twice) ==
    \E i \in DOMAIN tree.nodes :
        \/ \E k \in DOMAIN MuxMatches(rs, tree.nodes[i]) :
              LET rw == MuxMatches(rs, tree.nodes[i])[k]
              IN  get_mux_replacement(rw, tree.nodes[i], rw.start_index).raised
        \/ twice = "raise" /\ Len(MuxMatches(rs, tree.nodes[i])) > 1

\* RewriteSet.apply_muxes(tree): each node's predicate is replaced by the
\* guard of the rewrite that matches it (pred = <<>>: predicate untouched).
apply_muxes(rs, tree, twice) ==
    [name |-> tree.name,
     ports |-> tree.ports,
     nodes |-> [i \in DOMAIN tree.nodes |->
                  LET m  == MuxMatches(rs, tree.nodes[i])
                      rw == IF twice = "last" THEN m[Len(m)] ELSE m[1]
                  IN  [node |-> tree.nodes[i],
                       pred |-> IF m = <<>> THEN <<>>
                                ELSE <<get_mux_replacement(
                                          rw, tree.nodes[i], rw.start_index)>>]]]

\* What apply_muxes prints: the warning for a node that several rewrites
\* match is commented out (pc_core.py:125-135), nothing is printed.
apply_muxes_warnings(rs, tree) == <<>>

\* add_select_inputs(tree, num_inputs): the text
\*   "input logic " + "pc_sel1, ..., pc_sel{num_inputs}"
\* is put right after the opening parenthesis of the port list, followed by
\* ", " when the module has ports: one declaration in front of the others,
\* whatever num_inputs is.
add_select_inputs(tree, num_inputs) ==
    [tree EXCEPT !.ports =
        <<[decl |-> "input logic",
           names |-> [i \in 1..num_inputs |-> <<"pc_sel", i>>]]>> \o @]

\* -------------------------------------------------------------------- Runs
\* A Run whose input_tree is the tree the rewrite was applied in place to.
NewRun_input_rewritten(tree, rw, i) ==
    [canonical_fname |-> tree.name,
     mod_fname       |-> tree.name \o <<"pc", rw.start_index + i>>,
     input_tree      |-> apply(rw, tree, i + 1),
     output_tree     |-> rename_module(apply(rw, tree, i + 1),
                                       tree.name \o <<"pc", rw.start_index + i>>),
     rewrite         |-> rw,
     index           |-> i,
     wrapper_fname   |-> <<>>,
     valid           |-> FALSE,
     output          |-> <<>>]

\* Run(canonical_fname, mod_fname, input_tree, output_tree, rewrite, index)
\* as main builds it for branch i of a rewrite; "" is the empty tuple.
NewRun(tree, rw, i) ==
    [canonical_fname |-> tree.name,
     mod_fname       |-> tree.name \o <<"pc", rw.start_index + i>>,
     input_tree      |-> tree,
     output_tree     |-> rename_module(apply(rw, tree, i + 1),
                                       tree.name \o <<"pc", rw.start_index + i>>),
     rewrite         |-> rw,
     index           |-> i,
     wrapper_fname   |-> <<>>,
     valid           |-> FALSE,
     output          |-> <<>>]

\* for rewrite in rewrites.rewrites: for i in range(rewrite.num_selections)
RECURSIVE BuildRuns(_, _)
BuildRuns(tree, rws) ==
    IF rws = <<>> THEN <<>>
    ELSE [i \in 1..rws[1].num_selections |-> NewRun(tree, rws[1], i - 1)]
         \o BuildRuns(tree, Tail(rws))

\* ec.generate_ec_files(run): run.wrapper_fname = f"{run.mod_fname}_wrapper"
generate_ec_files(run) ==
    [run EXCEPT !.wrapper_fname = run.mod_fname \o <<"wrapper">>]

\* consolidate_runs.handler(node): the Runs whose rewrite matches the node.
MatchingRuns(rs, node) == SelectSeq(rs, LAMBDA run : matcher(run.rewrite, node))

consolidate_node(rs, node) ==
    LET m == MatchingRuns(rs, node)
    IN  IF Len(m) > 1
        THEN get_replacement(m[1].rewrite, node, TRUE)
        ELSE IF Len(m) = 1
             THEN get_replacement(m[1].rewrite, node, FALSE)
             ELSE node

\* consolidate_runs(tree, runs)
consolidate_runs(tree, rs) ==
    [tree EXCEPT !.nodes =
        [i \in DOMAIN tree.nodes |-> consolidate_node(rs, tree.nodes[i])]]

\* The warnings consolidate_runs prints, one per node that more than one Run
\* matches, in traversal order.
consolidate_warnings(tree, rs) ==
    LET hit == SelectSeq(tree.nodes, LAMBDA n : Len(MatchingRuns(rs, n)) > 1)
    IN  [i \in DOMAIN hit |-> <<"Warning: multiple rewrites match node", hit[i].src>>]

\* ----------------------------------------------------------- the semaphore
\* asyncio.Semaphore as run_with_limit uses it.  waiters is the FIFO of
\* futures: [run, done]; a future that was set stays queued until its task
\* resumes and removes it.
Semaphore(value) == [value |-> value, waiters |-> <<>>]

\* locked() that forgets the counter and looks at the queue alone.
locked_ignores_value(s) == s.waiters # <<>>

locked(s) == s.value = 0 \/ s.waiters # <<>>

FirstNotDone(s) ==
    IF \E i \in DOMAIN s.waiters : ~s.waiters[i].done
    THEN CHOOSE i \in DOMAIN s.waiters :
            /\ ~s.waiters[i].done
            /\ \A j \in 1..(i - 1) : s.waiters[j].done
    ELSE 0

wake_up_next(s) ==
    IF FirstNotDone(s) = 0 THEN s
    ELSE [value |-> s.value - 1,
          waiters |-> [s.waiters EXCEPT ![FirstNotDone(s)].done = TRUE]]

\* release() that returns the slot without waking a waiter.
release_without_wake_up(s) == [s EXCEPT !.value = @ + 1]

release(s) == wake_up_next([s EXCEPT !.value = @ + 1])

\* ------------------------------------------------------------- ternary.py
\* An expression in prefix form: <<"x">> is an identifier, <<"T">> \o p \o l
\* \o r the conditional expression p ? l : r.  Exprs(k): the expressions
\* with exactly k conditional expressions.
RECURSIVE Exprs(_)
Exprs(k) ==
    IF k = 0 THEN {<<"x">>}
    ELSE UNION {UNION {{<<"T">> \o p \o l \o r :
                          p \in Exprs(a), l \in Exprs(b), r \in Exprs(k - 1 - a - b)} :
                       b \in 0..(k - 1 - a)} :
                a \in 0..(k - 1)}

NumTernaries(e) == Cardinality({i \in DOMAIN e : e[i] = "T"})

RECURSIVE SumTernaries(_)
SumTernaries(f) == IF f = <<>> THEN 0 ELSE NumTernaries(f[1]) + SumTernaries(Tail(f))

\* Source texts are one or two statements, each one expression and a ";".
StatementCounts == {1, 2}

Sources ==
    UNION {{f \in [1..m -> UNION {Exprs(k) : k \in 0..MaxTernaries}] :
               SumTernaries(f) <= MaxTernaries} : m \in StatementCounts}

AtomNames == <<"a", "b", "c", "d", "e", "f", "g", "h", "i", "j", "k", "l",
               "m", "n", "o", "p">>

\* The text of the expression starting at pre[i] (one token per character,
\* the first at offset `off`; a conditional expression that is an operand is
\* written in parentheses) and the conditional expression nodes in it, in
\* the order find_all_ternaries appends them (a node, then its children),
\* each with the offsets of its sourceRange and of its left and right
\* operands' sourceRange.
RECURSIVE ParseExpr(_, _, _, _)
ParseExpr(pre, i, off, cnt) ==
    IF pre[i] = "x"
    THEN [next |-> i + 1, text |-> <<AtomNames[cnt + 1]>>, sites |-> <<>>,
          cnt |-> cnt + 1]
    ELSE LET Operand(j, o, c) ==
                 IF pre[j] = "T"
                 THEN [ParseExpr(pre, j, o + 1, c) EXCEPT
                          !.text = <<"(">> \o @ \o <<")">>]
                 ELSE ParseExpr(pre, j, o, c)
             P == Operand(i + 1, off, cnt)
             ls == off + Len(P.text) + 1
             L == Operand(P.next, ls, P.cnt)
             rs == ls + Len(L.text) + 1
             R == Operand(L.next, rs, L.cnt)
             text == P.text \o <<"?">> \o L.text \o <<":">> \o R.text
         IN  [next |-> R.next,
              text |-> text,
              sites |-> <<[start |-> off, end |-> off + Len(text),
                           left_start |-> ls, left_end |-> ls + Len(L.text),
                           right_start |-> rs, right_end |-> rs + Len(R.text)]>>
                        \o P.sites \o L.sites \o R.sites,
              cnt |-> R.cnt]

\* The source text of a sequence of statements and its conditional
\* expression nodes.
RECURSIVE ParseSource(_, _, _)
ParseSource(f, off, cnt) ==
    IF f = <<>> THEN [text |-> <<>>, sites |-> <<>>]
    ELSE LET e == ParseExpr(f[1], 1, off, cnt)
             rest == ParseSource(Tail(f), off + Len(e.text) + 1, e.cnt)
         IN  [text |-> e.text \o <<";">> \o rest.text,
              sites |-> e.sites \o rest.sites]

\* find_all_ternaries(tree.root)
find_all_ternaries(f) == ParseSource(f, 0, 0).sites

\* Python's s[a:b] for 0 <= a, b.
PySlice(s, a, b) ==
    LET hi == IF b < Len(s) THEN b ELSE Len(s)
    IN  IF a >= hi THEN <<>> ELSE SubSeq(s, a + 1, hi)

\* ternary.py:50-61
ternary_info(source_text, ternaries) ==
    [k \in DOMAIN ternaries |->
        [start      |-> ternaries[k].start,
         end        |-> ternaries[k].end,
         original   |-> PySlice(source_text, ternaries[k].start, ternaries[k].end),
         true_text  |-> PySlice(source_text, ternaries[k].left_start,
                                             ternaries[k].left_end),
         false_text |-> PySlice(source_text, ternaries[k].right_start,
                                             ternaries[k].right_end)]]

\* A choice that looks at the lowest bit of the tuple's number only.
Choice_of_last_site(c, i, n) == IF c % 2 = 0 THEN "true" ELSE "false"

\* choices[i - 1] of the c-th tuple (c = 0, 1, ...) of
\* product(['true', 'false'], repeat=n): the last position varies fastest.
Choice(c, i, n) == IF (c \div (2 ^ (n - i))) % 2 = 0 THEN "true" ELSE "false"

NoTernaryCall ==
    [phase |-> "idle", forest |-> <<>>, source_text |-> <<>>, info |-> <<>>,
     c |-> 0, i |-> 0, new_source |-> <<>>, rewrites |-> <<>>, variants |-> <<>>]

\* --------------------------------------------------------- shrink_bits_mux
\* A module body is a sequence of items, each a record
\*   [item, inserted, type, names, akind, lhs, rhs, rhs_in_expr]
\* item = "decl":   a data declaration of `names` with data type `type`
\*                  = [integer, dims]: integer says the type is an
\*                  IntegerTypeSyntax (logic, bit, reg, ...), dims is <<>> or
\*                  the first packed dimension <<first, last>> ([first:last]);
\* item = "assign": an assignment lhs = rhs of kind akind (continuous,
\*                  blocking, nonblocking); lhs and rhs are identifier
\*                  occurrences [name, mux], mux saying that the occurrence
\*                  was replaced by ( name_papercut ? name_papercut : name );
\*                  rhs_in_expr: the right-hand side is a larger expression
\*                  that reads the identifier (y = x + 1).
\* inserted marks the items the first pass inserted.  An identifier is
\* [base, papercut]: base with or without the suffix `_papercut`.
Ident(base) == [base |-> base, papercut |-> FALSE]

\* f"{decl}_papercut"
papercut_name(n) == [n EXCEPT !.papercut = TRUE]

Occ(n) == [name |-> n, mux |-> FALSE]

NoOcc == Occ(Ident(""))

NoType == [integer |-> FALSE, dims |-> <<>>]

Decl(type, names, inserted) ==
    [item |-> "decl", inserted |-> inserted, type |-> type, names |-> names,
     akind |-> "none", lhs |-> NoOcc, rhs |-> NoOcc, rhs_in_expr |-> FALSE]

Assign(akind, l, r, e, inserted) ==
    [item |-> "assign", inserted |-> inserted, type |-> NoType, names |-> <<>>,
     akind |-> akind, lhs |-> Occ(l), rhs |-> Occ(r), rhs_in_expr |-> e]

\* logic x; logic [0:0] x; logic [1:0] x; logic [MaxMsb:0] x;
\* logic [0:MaxMsb] x; and a non-integer type with a dimension.
DeclTypes ==
    {[integer |-> TRUE, dims |-> <<>>],
     [integer |-> TRUE, dims |-> <<0, 0>>],
     [integer |-> TRUE, dims |-> <<1, 0>>],
     [integer |-> TRUE, dims |-> <<MaxMsb, 0>>],
     [integer |-> TRUE, dims |-> <<0, MaxMsb>>],
     [integer |-> FALSE, dims |-> <<MaxMsb, 0>>]}

AssignKinds == {"continuous", "blocking", "nonblocking"}

\* Bodies: a declaration of x or of x, y; possibly a declaration of z; one
\* assignment among x and y.
ShrinkBodies ==
    {<<Decl(t1, n1, FALSE)>> \o more \o <<Assign(k, Ident(l), Ident(r), e, FALSE)>> :
        t1 \in DeclTypes,
        n1 \in {<<Ident("x")>>, <<Ident("x"), Ident("y")>>},
        more \in {<<>>} \cup {<<Decl(t2, <<Ident("z")>>, FALSE)>> : t2 \in DeclTypes},
        k \in AssignKinds, l \in {"x", "y"}, r \in {"x", "y"}, e \in BOOLEAN}

\* shrink_bits_mux.get_dimensions(node)
get_dimensions(node) ==
    IF node.type.integer /\ node.type.dims # <<>>
    THEN node.type.dims[1] - node.type.dims[2] + 1
    ELSE 1

\* shrink_bits_mux.get_decls(node)
get_decls(node) == node.names

\* change_int_dimensions(w, ...): the integer type with dimension [w-1:0]
change_int_dimensions(w, type) == [type EXCEPT !.dims = <<w - 1, 0>>]

\* What add_decl_handler inserts after a declaration of width > 1: the
\* declaration of the shadows and `assign <first shadow> = <first name>;`.
\* (A width above 1 is only ever computed for an IntegerTypeSyntax, so the
\* NotImplementedError branch is not reached.)
inserted_after(node) ==
    LET new_width == get_dimensions(node) - 1
        old_decls == get_decls(node)
        new_decls == [k \in DOMAIN old_decls |-> papercut_name(old_decls[k])]
    IN  <<Decl(change_int_dimensions(new_width, node.type), new_decls, TRUE),
          Assign("continuous", new_decls[1], old_decls[1], FALSE, TRUE)>>

\* syntax.rewrite(tree, add_decl_handler)
RECURSIVE add_decl_pass(_)
add_decl_pass(items) ==
    IF items = <<>> THEN <<>>
    ELSE (IF items[1].item = "decl" /\ get_dimensions(items[1]) > 1
          THEN <<items[1]>> \o inserted_after(items[1])
          ELSE <<items[1]>>)
         \o add_decl_pass(Tail(items))

\* old_decl_set after the first pass
old_decl_set(items) ==
    UNION {{items[j].names[k] : k \in DOMAIN items[j].names} :
             j \in {q \in DOMAIN items :
                      items[q].item = "decl" /\ get_dimensions(items[q]) > 1}}

\* The first test of add_mux_handler for an operand of an assignment:
\* node.parent.kind == AssignmentExpression (the kind of `=` in a continuous
\* or blocking assignment; `<=` is NonblockingAssignmentExpression) and
\* node.isEquivalentTo(node.parent.left), a comparison of structure.
skipped_as_left(a, occ, direct) ==
    /\ direct
    /\ a.akind \in {"continuous", "blocking"}
    /\ occ = a.lhs

\* add_mux_handler on an identifier occurrence
add_mux(a, occ, direct, old) ==
    IF skipped_as_left(a, occ, direct) THEN occ
    ELSE IF occ.name \in old THEN [occ EXCEPT !.mux = TRUE]
    ELSE occ

\* syntax.rewrite(tree, add_mux_handler)
add_mux_pass(items, old) ==
    [j \in DOMAIN items |->
        IF items[j].item = "assign"
        THEN [items[j] EXCEPT
                 !.lhs = add_mux(items[j], items[j].lhs, TRUE, old),
                 !.rhs = add_mux(items[j], items[j].rhs, ~items[j].rhs_in_expr, old)]
        ELSE items[j]]

\* Values of a signal: a sequence of four-state bits, least significant
\* bit first.
FourState == {"0", "1", "x", "z"}

\* An unsigned operand narrower than the expression is extended with zeros.
zero_extend(v, n) == [k \in 1..n |-> IF k <= Len(v) THEN v[k] ELSE "0"]

\* The value of the expression add_mux_handler builds for a read of an
\* identifier, ( <id>_papercut ? <id>_papercut : <id> ), for the shadow
\* holding s and the original holding o.  A conditional expression takes its
\* second operand when the condition has a bit 1, its third operand when
\* the condition is all zeros, and otherwise (a condition with x or z bits
\* and no 1) combines both operands bit by bit: equal known bits stay, every
\* other bit is x.
read_mux_value(s, o) ==
    LET n == Len(o)
        se == zero_extend(s, n)
    IN  IF \E k \in DOMAIN s : s[k] = "1" THEN se
        ELSE IF \A k \in DOMAIN s : s[k] = "0" THEN o
        ELSE [k \in 1..n |-> IF se[k] = o[k] /\ o[k] \in {"0", "1"}
                             THEN o[k] ELSE "x"]

\* Widths of the declarations whose read muxes are evaluated.
ProbeWidths == {2}

NoShrinkCall ==
    [phase |-> "idle", body |-> <<>>, declared |-> <<>>, old_decl_set |-> {},
     out |-> <<>>,
     probe |-> [at |-> 0, shadow |-> <<>>, orig |-> <<>>, value |-> <<>>]]

\* find_module_decl not called.
NoSearch == [tree |-> <<>>, node |-> 0, result |-> "idle"]

\* No output artifact written yet.
NoFiles == [n |-> 0, at |-> "idle", i |-> 0, written |-> {}, failed |-> {},
            logged |-> {}, aborted |-> FALSE]

\* No Rewrite.apply call made yet.
NoApply == [k |-> 0, index |-> 0, tree |-> NoTree]

\* ------------------------------------------- RewriteSet specification
\* Three variables holding RewriteSet objects: a and b are only ever built
\* by RewriteSet() and add_rewrite, m may also be assigned a.merge(b) etc.
\* sets[x] = [rs, merged]: the object and whether it came from merge.
SetNames == {"a", "b", "m"}

\* num_selections of the Rewrites the repository builds: 2 for an if or a
\* ternary (pc_core.py:639, :689), 1 for a MuxedRewrite (muxer.py:10).
NumSelections == {1, 2}

RSIdle == [x \in SetNames |-> [rs |-> EmptyRewriteSet, merged |-> FALSE]]

RSInit ==
    /\ sets = RSIdle
    /\ pc = "start"
    /\ args = [remove_if_conditionals |-> FALSE,
               remove_ternary_conditionals |-> FALSE,
               check_equivalence |-> FALSE]
    /\ sw = [name |-> <<"m">>, ports |-> <<>>, nodes |-> <<>>]
    /\ rewrites = EmptyRewriteSet
    /\ muxed_tree = NoTree
    /\ runs = <<>>
    /\ tpc = <<>>
    /\ sem = Semaphore(0)
    /\ stdout = <<>>
    /\ successes = <<>>
    /\ consolidated = NoTree
    /\ overtook = FALSE
    /\ applied = NoApply
    /\ process = <<>>
    /\ module_decl = NoSearch
    /\ files = NoFiles
    /\ shrink = NoShrinkCall
    /\ tern = NoTernaryCall

\* x.add_rewrite(Rewrite(..., num_selections=n)) with a newly built Rewrite,
\* as at pc_core.py:630 and :680.
RSAdd(x, n) ==
    /\ Len(sets[x].rs.rewrites) < MaxRewrites
    /\ sets' = [sets EXCEPT ![x].rs =
                    add_rewrite(@, NewRewrite("if", Len(@.rewrites) + 1, n))]
    /\ UNCHANGED mainVars

\* m = x.merge(y)
RSMerge(x, y) ==
    /\ x # y
    /\ Len(sets[x].rs.rewrites) + Len(sets[y].rs.rewrites) <= MaxRewrites
    /\ sets' = [sets EXCEPT !["m"] =
                    [rs |-> merge(sets[x].rs, sets[y].rs), merged |-> TRUE]]
    /\ UNCHANGED mainVars

RSNext ==
    \/ \E x \in SetNames, n \in NumSelections : RSAdd(x, n)
    \/ \E x \in SetNames, y \in SetNames : RSMerge(x, y)

SpecRewriteSet == RSInit /\ [][RSNext]_vars

\* ------------------------------------------- apply_muxes specification
\* A RewriteSet filled by any sequence of calls of the two locators on one
\* design (a locator may be called again on the same set), then
\* RewriteSet.apply_muxes on that design.
MxInit ==
    /\ sw \in Designs
    /\ rewrites = EmptyRewriteSet
    /\ pc = "start"
    /\ args = [remove_if_conditionals |-> FALSE,
               remove_ternary_conditionals |-> FALSE,
               check_equivalence |-> FALSE]
    /\ muxed_tree = NoTree
    /\ runs = <<>>
    /\ tpc = <<>>
    /\ sem = Semaphore(0)
    /\ stdout = <<>>
    /\ successes = <<>>
    /\ consolidated = NoTree
    /\ sets = RSIdle
    /\ overtook = FALSE
    /\ applied = NoApply
    /\ process = <<>>
    /\ module_decl = NoSearch
    /\ files = NoFiles
    /\ shrink = NoShrinkCall
    /\ tern = NoTernaryCall

MxLocateIf ==
    /\ pc = "start"
    /\ Len(remove_if_conditionals(sw, rewrites).rewrites) <= MaxRewrites
    /\ remove_if_conditionals(sw, rewrites) # rewrites
    /\ rewrites' = remove_if_conditionals(sw, rewrites)
    /\ UNCHANGED <<pc, args, sw, muxed_tree, runs, tpc, sem, stdout,
                   successes, consolidated, sets, overtook, applied, tern, shrink, files, module_decl, process>>

MxLocateTernary ==
    /\ pc = "start"
    /\ Len(remove_ternary_conditionals(sw, rewrites).rewrites) <= MaxRewrites
    /\ remove_ternary_conditionals(sw, rewrites) # rewrites
    /\ rewrites' = remove_ternary_conditionals(sw, rewrites)
    /\ UNCHANGED <<pc, args, sw, muxed_tree, runs, tpc, sem, stdout,
                   successes, consolidated, sets, overtook, applied, tern, shrink, files, module_decl, process>>

MxApplyMuxes ==
    /\ pc = "start"
    /\ \E twice \in ReplaceTwice :
          IF apply_muxes_raises(rewrites, sw, twice)
          THEN /\ pc' = "crashed"
               /\ UNCHANGED <<muxed_tree, stdout>>
          ELSE /\ muxed_tree' = apply_muxes(rewrites, sw, twice)
               /\ stdout' = stdout \o apply_muxes_warnings(rewrites, sw)
               /\ pc' = "muxed"
    /\ UNCHANGED <<args, sw, rewrites, runs, tpc, sem,
                   successes, consolidated, sets, overtook, applied, tern, shrink, files, module_decl, process>>

MxNext == MxLocateIf \/ MxLocateTernary \/ MxApplyMuxes

SpecMux == MxInit /\ [][MxNext]_vars

\* ------------------------------------------------- apply specification
\* The locators fill a RewriteSet from a design whose constructs may be
\* nested; Rewrite.apply is then called on the design for any registered
\* Rewrite and any index.
ApInit ==
    /\ sw \in NestedDesigns
    /\ rewrites = EmptyRewriteSet
    /\ pc = "start"
    /\ args = [remove_if_conditionals |-> FALSE,
               remove_ternary_conditionals |-> FALSE,
               check_equivalence |-> FALSE]
    /\ muxed_tree = NoTree
    /\ runs = <<>>
    /\ tpc = <<>>
    /\ sem = Semaphore(0)
    /\ stdout = <<>>
    /\ successes = <<>>
    /\ consolidated = NoTree
    /\ sets = RSIdle
    /\ overtook = FALSE
    /\ applied = NoApply
    /\ process = <<>>
    /\ module_decl = NoSearch
    /\ files = NoFiles
    /\ shrink = NoShrinkCall
    /\ tern = NoTernaryCall

ApLocateIf ==
    /\ pc = "start"
    /\ ~\E k \in DOMAIN rewrites.rewrites : rewrites.rewrites[k].kind = "if"
    /\ rewrites' = remove_if_conditionals(sw, rewrites)
    /\ UNCHANGED <<pc, args, sw, muxed_tree, runs, tpc, sem, stdout,
                   successes, consolidated, sets, overtook, applied, tern, shrink, files, module_decl, process>>

ApLocateTernary ==
    /\ pc = "start"
    /\ ~\E k \in DOMAIN rewrites.rewrites : rewrites.rewrites[k].kind = "ternary"
    /\ rewrites' = remove_ternary_conditionals(sw, rewrites)
    /\ UNCHANGED <<pc, args, sw, muxed_tree, runs, tpc, sem, stdout,
                   successes, consolidated, sets, overtook, applied, tern, shrink, files, module_decl, process>>

\* rewrites.rewrites[k].apply(sw, index)
ApApply(k, index) ==
    /\ pc = "start"
    /\ k \in DOMAIN rewrites.rewrites
    /\ applied' = [k |-> k, index |-> index,
                   tree |-> apply(rewrites.rewrites[k], sw, index)]
    /\ UNCHANGED <<pc, args, sw, rewrites, muxed_tree, runs, tpc, sem, stdout,
                   successes, consolidated, sets, overtook, tern, shrink, files, module_decl, process>>

\* The values of `index` Rewrite.apply distinguishes: 0, 1 and anything else.
ApplyIndexes == {0, 1, 2}

ApNext ==
    \/ ApLocateIf
    \/ ApLocateTernary
    \/ \E k \in 1..MaxSites, index \in ApplyIndexes : ApApply(k, index)

SpecApply == ApInit /\ [][ApNext]_vars

\* -------------------------------------------- remove_ternaries specification
TvInit ==
    /\ tern \in {[NoTernaryCall EXCEPT !.phase = "called", !.forest = f,
                      !.source_text = ParseSource(f, 0, 0).text] : f \in Sources}
    /\ sw = [name |-> <<"m">>, ports |-> <<>>, nodes |-> <<>>]
    /\ rewrites = EmptyRewriteSet
    /\ pc = "start"
    /\ args = [remove_if_conditionals |-> FALSE,
               remove_ternary_conditionals |-> FALSE,
               check_equivalence |-> FALSE]
    /\ muxed_tree = NoTree
    /\ runs = <<>>
    /\ tpc = <<>>
    /\ sem = Semaphore(0)
    /\ stdout = <<>>
    /\ successes = <<>>
    /\ consolidated = NoTree
    /\ sets = RSIdle
    /\ overtook = FALSE
    /\ applied = NoApply
    /\ process = <<>>
    /\ module_decl = NoSearch
    /\ files = NoFiles
    /\ shrink = NoShrinkCall

allButTern == <<pc, args, sw, rewrites, muxed_tree, runs, tpc, sem, stdout,
                successes, consolidated, sets, overtook, applied, shrink, files, module_decl, process>>

allButShrink == <<pc, args, sw, rewrites, muxed_tree, runs, tpc, sem, stdout,
                  successes, consolidated, sets, overtook, applied, tern, files, module_decl, process>>

\* ternary.py:43-61: the nodes are located; without any the source is
\* returned as the only variant, else ternary_info is built and the loop
\* over the choices is entered.
TvLocate ==
    /\ tern.phase = "called"
    /\ LET ternaries == find_all_ternaries(tern.forest)
       IN  IF ternaries = <<>>
           THEN tern' = [tern EXCEPT
                            !.phase = "returned",
                            !.variants = <<[source |-> tern.source_text,
                                            rewrites |-> <<>>]>>]
           ELSE tern' = [tern EXCEPT
                            !.phase = "loop",
                            !.info = ternary_info(tern.source_text, ternaries),
                            !.c = 0,
                            !.i = Len(ternaries),
                            !.new_source = tern.source_text,
                            !.rewrites = <<>>]
    /\ UNCHANGED allButTern

\* ternary.py:72-86: one pass of the inner loop, i running downwards.
TvSubstitute ==
    /\ tern.phase = "loop"
    /\ tern.i >= 1
    /\ LET info == tern.info[tern.i]
           branch == Choice(tern.c, tern.i, Len(tern.info))
           replacement == IF branch = "true" THEN info.true_text
                                             ELSE info.false_text
       IN  tern' = [tern EXCEPT
                       !.rewrites = <<[start_offset |-> info.start,
                                       end_offset |-> info.end,
                                       original_text |-> info.original,
                                       replacement_text |-> replacement,
                                       branch |-> branch]>> \o @,
                       !.new_source =
                           PySlice(@, 0, info.start) \o replacement
                               \o PySlice(@, info.end, Len(@)),
                       !.i = @ - 1]
    /\ UNCHANGED allButTern

\* ternary.py:67-69, 88-90: the variant is appended and the next tuple of
\* choices is taken, or the list is returned.
TvAppend ==
    /\ tern.phase = "loop"
    /\ tern.i = 0
    /\ LET vs == Append(tern.variants, [source |-> tern.new_source,
                                        rewrites |-> tern.rewrites])
       IN  IF tern.c + 1 = 2 ^ Len(tern.info)
           THEN tern' = [tern EXCEPT !.phase = "returned", !.variants = vs]
           ELSE tern' = [tern EXCEPT !.variants = vs,
                                     !.c = @ + 1,
                                     !.i = Len(tern.info),
                                     !.new_source = tern.source_text,
                                     !.rewrites = <<>>]
    /\ UNCHANGED allButTern

TvNext == TvLocate \/ TvSubstitute \/ TvAppend

SpecTernary == TvInit /\ [][TvNext]_vars

\* --------------------------------------------- shrink_bits_mux specification
ShInit ==
    /\ shrink \in {[NoShrinkCall EXCEPT !.phase = "called", !.body = b] :
                       b \in ShrinkBodies}
    /\ tern = NoTernaryCall
    /\ sw = [name |-> <<"m">>, ports |-> <<>>, nodes |-> <<>>]
    /\ rewrites = EmptyRewriteSet
    /\ pc = "start"
    /\ args = [remove_if_conditionals |-> FALSE,
               remove_ternary_conditionals |-> FALSE,
               check_equivalence |-> FALSE]
    /\ muxed_tree = NoTree
    /\ runs = <<>>
    /\ tpc = <<>>
    /\ sem = Semaphore(0)
    /\ stdout = <<>>
    /\ successes = <<>>
    /\ consolidated = NoTree
    /\ sets = RSIdle
    /\ overtook = FALSE
    /\ applied = NoApply
    /\ process = <<>>
    /\ module_decl = NoSearch
    /\ files = NoFiles

\* pc_core.py:537, inner call: the pass of add_decl_handler.
ShAddDecls ==
    /\ shrink.phase = "called"
    /\ shrink' = [shrink EXCEPT !.phase = "declared",
                                !.declared = add_decl_pass(shrink.body),
                                !.old_decl_set = old_decl_set(shrink.body)]
    /\ UNCHANGED allButShrink

\* pc_core.py:537, outer call: the pass of add_mux_handler over the result
\* of the first pass.
ShAddMuxes ==
    /\ shrink.phase = "declared"
    /\ shrink' = [shrink EXCEPT !.phase = "returned",
                                !.out = add_mux_pass(shrink.declared,
                                                     shrink.old_decl_set)]
    /\ UNCHANGED allButShrink

\* The declaration of the input that declares the identifier n.
DeclOf(items, n) ==
    {q \in DOMAIN items :
        /\ items[q].item = "decl"
        /\ ~items[q].inserted
        /\ \E k \in DOMAIN items[q].names : items[q].names[k] = n}

\* The design returned by shrink_bits_mux is simulated: the read mux that
\* replaced the right-hand side of assignment j is evaluated while the
\* original holds o and the shadow, one bit narrower, holds s (driven by
\* its continuous assignment or forced from outside).
ShReadMux ==
    /\ shrink.phase = "returned"
    /\ \E j \in DOMAIN shrink.out :
          /\ shrink.out[j].item = "assign"
          /\ shrink.out[j].rhs.mux
          /\ \E q \in DeclOf(shrink.out, shrink.out[j].rhs.name), w \in ProbeWidths :
                /\ get_dimensions(shrink.out[q]) = w
                /\ \E s \in [1..(w - 1) -> FourState], o \in [1..w -> {"0", "1"}] :
                      shrink' = [shrink EXCEPT
                                    !.phase = "evaluated",
                                    !.probe = [at |-> j, shadow |-> s, orig |-> o,
                                               value |-> read_mux_value(s, o)]]
    /\ UNCHANGED allButShrink

ShNext == ShAddDecls \/ ShAddMuxes \/ ShReadMux

SpecShrink == ShInit /\ [][ShNext]_vars

\* ------------------------------------------- mutation-selection flags
\* main(), pc_core.py:700-740, on designs that hold sites of all four
\* categories: SimpleRangeSelect ("range"), StandardCaseItem ("case"),
\* ConditionalStatementSyntax ("if"), ConditionalExpressionSyntax ("ternary").
Categories == {"range", "case", "if", "ternary"}

FlagDesigns ==
    UNION {{[name |-> <<"m">>,
             ports |-> <<>>,
             nodes |-> [i \in 1..n |->
                          [kind |-> f[i], else |-> FALSE,
                           src |-> i, part |-> "whole",
                           parent |-> 0, pos |-> "top"]]] :
              f \in [1..n -> Categories]} : n \in 0..MaxSites}

\* parser.add_argument(...), action="store_true", lines 700-704
AllFlags == [shrink_bits : BOOLEAN,
             delete_case_branch : BOOLEAN,
             remove_if_conditionals : BOOLEAN,
             remove_ternary_conditionals : BOOLEAN,
             check_equivalence : {FALSE}]

flagFrame == <<args, sw, muxed_tree, runs, tpc, sem, stdout, successes,
               consolidated, sets, overtook, applied, tern, shrink, files, module_decl, process>>

FlInit ==
    /\ args \in AllFlags
    /\ sw \in FlagDesigns
    /\ rewrites = EmptyRewriteSet
    /\ pc = "start"
    /\ muxed_tree = NoTree
    /\ runs = <<>>
    /\ tpc = <<>>
    /\ sem = Semaphore(0)
    /\ stdout = <<>>
    /\ successes = <<>>
    /\ consolidated = NoTree
    /\ sets = RSIdle
    /\ overtook = FALSE
    /\ applied = NoApply
    /\ process = <<>>
    /\ module_decl = NoSearch
    /\ files = NoFiles
    /\ shrink = NoShrinkCall
    /\ tern = NoTernaryCall

\* lines 728-730: `if args.shrink_bits: pass` (the call is commented out)
FlShrinkBits ==
    /\ pc = "start"
    /\ pc' = "shrink_bits_done"
    /\ rewrites' = rewrites
    /\ UNCHANGED flagFrame

\* lines 732-734: `if args.delete_case_branch: pass`
FlDeleteCaseBranch ==
    /\ pc = "shrink_bits_done"
    /\ pc' = "delete_case_branch_done"
    /\ rewrites' = rewrites
    /\ UNCHANGED flagFrame

\* lines 736-737
FlRemoveIf ==
    /\ pc = "delete_case_branch_done"
    /\ pc' = "remove_if_done"
    /\ rewrites' = IF args.remove_if_conditionals
                   THEN remove_if_conditionals(sw, rewrites)
                   ELSE rewrites
    /\ UNCHANGED flagFrame

\* lines 739-740
FlRemoveTernary ==
    /\ pc = "remove_if_done"
    /\ pc' = "located"
    /\ rewrites' = IF args.remove_ternary_conditionals
                   THEN remove_ternary_conditionals(sw, rewrites)
                   ELSE rewrites
    /\ UNCHANGED flagFrame

FlNext == FlShrinkBits \/ FlDeleteCaseBranch \/ FlRemoveIf \/ FlRemoveTernary

SpecFlags == FlInit /\ [][FlNext]_vars

\* ------------------------------------------------------ output artifacts
\* The writes of main() and ec.generate_ec_files, in program order, each
\* of which may fail with an OSError.  files.n is len(runs), files.at the
\* write main() is about to make and files.i the run of the loop it is in.
Art(kind, run) == [kind |-> kind, run |-> run]

\* Every artifact main() writes when no write fails.
Planned(n, check_equivalence) ==
    {Art("muxed", 0), Art("concretized", 0)}
    \cup {Art("variant", r) : r \in 1..n}
    \cup (IF check_equivalence
          THEN {Art(k, r) : k \in {"tcl", "wrapper"}, r \in 1..n}
          ELSE {})
    \cup (IF check_equivalence /\ n > 0
          THEN {Art("log", r) : r \in 1..n}
               \cup {Art("summary", 0), Art("consolidated", 0)}
          ELSE {})

\* open(...) and write succeed.
write_ok(f, a) == [f EXCEPT !.written = @ \cup {a}]

\* The write fails inside try/except Exception: the message is printed.
write_logged(f, a) == [f EXCEPT !.failed = @ \cup {a}, !.logged = @ \cup {a}]

\* The write fails outside any try: the exception leaves main().
write_raises(f, a) ==
    [f EXCEPT !.failed = @ \cup {a}, !.aborted = TRUE, !.at = "aborted"]

\* Where main() goes after a loop over the runs, or to the next run.
goto(f, at, i) == [f EXCEPT !.at = at, !.i = i]

ArInit ==
    \* len(runs): none, or the two Runs of one Rewrite
    /\ files \in {[NoFiles EXCEPT !.n = n, !.at = "muxed"] : n \in {0, 2}}
    /\ args \in {[remove_if_conditionals |-> TRUE,
                   remove_ternary_conditionals |-> FALSE,
                   check_equivalence |-> ce] : ce \in BOOLEAN}
    /\ sw = [name |-> <<"m">>, ports |-> <<>>, nodes |-> <<>>]
    /\ rewrites = EmptyRewriteSet
    /\ pc = "start"
    /\ muxed_tree = NoTree
    /\ runs = <<>>
    /\ tpc = <<>>
    /\ sem = Semaphore(0)
    /\ stdout = <<>>
    /\ successes = <<>>
    /\ consolidated = NoTree
    /\ sets = RSIdle
    /\ overtook = FALSE
    /\ applied = NoApply
    /\ process = <<>>
    /\ module_decl = NoSearch
    /\ shrink = NoShrinkCall
    /\ tern = NoTernaryCall

allButFiles == <<pc, args, sw, rewrites, muxed_tree, runs, tpc, sem, stdout,
                 successes, consolidated, sets, overtook, applied, tern, shrink,
                 module_decl, process>>

\* pc_core.py:746-747, no try around it
ArWriteMuxed ==
    /\ files.at = "muxed"
    /\ \E ok \in BOOLEAN :
          files' = IF ok THEN goto(write_ok(files, Art("muxed", 0)), "concretized", 0)
                   ELSE write_raises(files, Art("muxed", 0))
    /\ UNCHANGED allButFiles

\* Where main() continues after the loop of lines 778-783.
after_variants(f) ==
    IF ~args.check_equivalence THEN goto(f, "done", 0)
    ELSE IF f.n > 0 THEN goto(f, "ec", 1)
    ELSE goto(f, "done", 0)

\* pc_core.py:772-776
ArWriteConcretized ==
    /\ files.at = "concretized"
    /\ \E ok \in BOOLEAN :
          LET f == IF ok THEN write_ok(files, Art("concretized", 0))
                   ELSE write_logged(files, Art("concretized", 0))
          IN  files' = IF f.n > 0 THEN goto(f, "variants", 1) ELSE after_variants(f)
    /\ UNCHANGED allButFiles

\* pc_core.py:778-783, one iteration
ArWriteVariant ==
    /\ files.at = "variants"
    /\ \E ok \in BOOLEAN :
          LET f == IF ok THEN write_ok(files, Art("variant", files.i))
                   ELSE write_logged(files, Art("variant", files.i))
          IN  files' = IF files.i < f.n THEN goto(f, "variants", files.i + 1)
                       ELSE after_variants(f)
    /\ UNCHANGED allButFiles

\* pc_core.py:786-787, one iteration; ec.py:209-217: both writes sit in one
\* try, the script first, so a failure of the script skips the wrapper.
ArGenerateEcFiles ==
    /\ files.at = "ec"
    /\ \E fails \in {"none", "tcl", "wrapper"} :
          LET f == IF fails = "tcl" THEN write_logged(files, Art("tcl", files.i))
                   ELSE IF fails = "wrapper"
                   THEN write_logged(write_ok(files, Art("tcl", files.i)),
                                     Art("wrapper", files.i))
                   ELSE write_ok(write_ok(files, Art("tcl", files.i)),
                                 Art("wrapper", files.i))
          IN  files' = IF files.i < f.n THEN goto(f, "ec", files.i + 1)
                       ELSE goto(f, "logs", 1)
    /\ UNCHANGED allButFiles

\* pc_core.py:812-814, one iteration, no try around it
ArWriteLog ==
    /\ files.at = "logs"
    /\ \E ok \in BOOLEAN :
          files' = IF ~ok THEN write_raises(files, Art("log", files.i))
                   ELSE IF files.i < files.n
                   THEN goto(write_ok(files, Art("log", files.i)), "logs", files.i + 1)
                   ELSE goto(write_ok(files, Art("log", files.i)), "summary", 0)
    /\ UNCHANGED allButFiles

\* pc_core.py:821-822, no try around it
ArWriteSummary ==
    /\ files.at = "summary"
    /\ \E ok \in BOOLEAN :
          files' = IF ok THEN goto(write_ok(files, Art("summary", 0)), "consolidated", 0)
                   ELSE write_raises(files, Art("summary", 0))
    /\ UNCHANGED allButFiles

\* pc_core.py:839-840, no try around it
ArWriteConsolidated ==
    /\ files.at = "consolidated"
    /\ \E ok \in BOOLEAN :
          files' = IF ok THEN goto(write_ok(files, Art("consolidated", 0)), "done", 0)
                   ELSE write_raises(files, Art("consolidated", 0))
    /\ UNCHANGED allButFiles

ArNext ==
    \/ ArWriteMuxed
    \/ ArWriteConcretized
    \/ ArWriteVariant
    \/ ArGenerateEcFiles
    \/ ArWriteLog
    \/ ArWriteSummary
    \/ ArWriteConsolidated

SpecArtifacts == ArInit /\ [][ArNext]_vars

\* ------------------------------------------------------- find_module_decl
\* A syntax tree for find_module_decl: entries in document order, each with
\* its parent (0 for the root, the CompilationUnit).  An entry is a
\* ModuleDeclaration ("module"), another syntax node ("node") or a token
\* ("token"); a token has no children.
SyntaxTrees ==
    UNION {{t \in [1..n -> [kind : {"unit", "module", "node", "token"},
                            parent : 0..(n - 1)]] :
               /\ t[1].kind = "unit" /\ t[1].parent = 0
               /\ \A i \in 2..n :
                     /\ t[i].kind # "unit"
                     /\ t[i].parent \in 1..(i - 1)
                     /\ t[t[i].parent].kind # "token"
                     \* document order: an entry's parent is the previous
                     \* entry or one of its ancestors
                     /\ \A j \in (t[i].parent + 1)..(i - 1) :
                           t[j].parent >= t[i].parent} : n \in 1..MaxNodes}

\* `for child in node`: the children of entry n, in order.
Children(t, n) == {i \in DOMAIN t : t[i].parent = n}

FirstChild(t, n) == CHOOSE i \in Children(t, n) : \A j \in Children(t, n) : i <= j

FmInit ==
    /\ module_decl \in {[tree |-> t, node |-> 1, result |-> "called"] :
                            t \in SyntaxTrees}
    /\ pc = "start"
    /\ args = [remove_if_conditionals |-> FALSE,
               remove_ternary_conditionals |-> FALSE,
               check_equivalence |-> FALSE]
    /\ sw = NoTree
    /\ rewrites = EmptyRewriteSet
    /\ muxed_tree = NoTree
    /\ runs = <<>>
    /\ tpc = <<>>
    /\ sem = Semaphore(0)
    /\ stdout = <<>>
    /\ successes = <<>>
    /\ consolidated = NoTree
    /\ sets = RSIdle
    /\ overtook = FALSE
    /\ applied = NoApply
    /\ process = <<>>
    /\ files = NoFiles
    /\ shrink = NoShrinkCall
    /\ tern = NoTernaryCall

allButModuleDecl ==
    <<pc, args, sw, rewrites, muxed_tree, runs, tpc, sem, stdout, successes,
      consolidated, sets, overtook, applied, tern, shrink, files, process>>

\* line 299-300: the node of the current call is the ModuleDeclaration; the
\* call returns it, and every calling frame returns it in turn (it is
\* truthy, line 303-304).
FmReturn ==
    /\ module_decl.result = "called"
    /\ module_decl.tree[module_decl.node].kind = "module"
    /\ module_decl' = [module_decl EXCEPT !.result = "returned"]
    /\ UNCHANGED allButModuleDecl

\* line 301-302: the loop calls find_module_decl on the first child.
FmDescend ==
    /\ module_decl.result = "called"
    /\ module_decl.tree[module_decl.node].kind \in {"unit", "node"}
    /\ Children(module_decl.tree, module_decl.node) # {}
    /\ module_decl' = [module_decl EXCEPT
                          !.node = FirstChild(module_decl.tree, module_decl.node)]
    /\ UNCHANGED allButModuleDecl

\* line 305: the loop of a node without children ends and the call raises
\* ValueError; no calling frame catches it, so the loops of the callers
\* never reach their next child.
FmRaise ==
    /\ module_decl.result = "called"
    /\ module_decl.tree[module_decl.node].kind \in {"unit", "node"}
    /\ Children(module_decl.tree, module_decl.node) = {}
    /\ module_decl' = [module_decl EXCEPT !.result = "ValueError"]
    /\ UNCHANGED allButModuleDecl

\* line 301 on a token: `for child in node` raises TypeError where the
\* binding's Token is not iterable, and otherwise finds no child, so that
\* line 305 raises ValueError; no calling frame catches either.
FmTokenRaise ==
    /\ module_decl.result = "called"
    /\ module_decl.tree[module_decl.node].kind = "token"
    /\ \E e \in {"TypeError", "ValueError"} :
          module_decl' = [module_decl EXCEPT !.result = e]
    /\ UNCHANGED allButModuleDecl

FmNext == FmReturn \/ FmDescend \/ FmRaise \/ FmTokenRaise

SpecFind == FmInit /\ [][FmNext]_vars

\* ------------------------------------------------------------------ main()
Flags == [remove_if_conditionals : BOOLEAN,
          remove_ternary_conditionals : BOOLEAN,
          check_equivalence : BOOLEAN]

Init ==
    /\ pc = "start"
    /\ args \in Flags
    /\ sw \in Designs
    /\ rewrites = EmptyRewriteSet
    /\ muxed_tree = NoTree
    /\ runs = <<>>
    /\ tpc = <<>>
    /\ sem = Semaphore(0)
    /\ stdout = <<>>
    /\ successes = <<>>
    /\ consolidated = NoTree
    /\ sets = RSIdle
    /\ overtook = FALSE
    /\ applied = NoApply
    /\ process = <<>>
    /\ module_decl = NoSearch
    /\ files = NoFiles
    /\ shrink = NoShrinkCall
    /\ tern = NoTernaryCall

\* pc_core.py:723-740: the RewriteSet of the enabled categories.
LocateSites ==
    /\ pc = "start"
    /\ LET r1 == IF args.remove_if_conditionals
                 THEN remove_if_conditionals(sw, EmptyRewriteSet)
                 ELSE EmptyRewriteSet
           r2 == IF args.remove_ternary_conditionals
                 THEN remove_ternary_conditionals(sw, r1)
                 ELSE r1
       IN  rewrites' = r2
    /\ pc' = "located"
    /\ UNCHANGED <<args, sw, muxed_tree, runs, tpc, sem,
                   stdout, successes, consolidated, sets, overtook, applied, tern, shrink, files, module_decl, process>>

\* pc_core.py:742-747: the mux-encoded design; an exception ends main().
MuxEncode ==
    /\ pc = "located"
    /\ \E twice \in ReplaceTwice :
          IF apply_muxes_raises(rewrites, sw, twice)
          THEN /\ pc' = "crashed"
               /\ UNCHANGED <<muxed_tree, stdout>>
          ELSE /\ muxed_tree' =
                     add_select_inputs(
                         rename_module(apply_muxes(rewrites, sw, twice),
                                       sw.name \o <<"muxed">>),
                         SumSel(rewrites.rewrites))
               /\ stdout' = stdout \o apply_muxes_warnings(rewrites, sw)
               /\ pc' = "muxed"
    /\ UNCHANGED <<args, sw, rewrites, runs, tpc, sem,
                   successes, consolidated, sets, overtook, applied, tern, shrink, files, module_decl, process>>

\* pc_core.py:749-783: one Run per branch of each rewrite.
MakeRuns ==
    /\ pc = "muxed"
    /\ runs' = BuildRuns(sw, rewrites.rewrites)
    /\ pc' = "built"
    /\ UNCHANGED <<args, sw, rewrites, muxed_tree, tpc, sem,
                   stdout, successes, consolidated, sets, overtook, applied, tern, shrink, files, module_decl, process>>

\* pc_core.py:785: without --check-equivalence main() ends here.
SkipEquivalence ==
    /\ pc = "built"
    /\ ~args.check_equivalence
    /\ pc' = "done"
    /\ UNCHANGED <<args, sw, rewrites, muxed_tree, runs, tpc, sem, stdout,
                   successes, consolidated, sets, overtook, applied, tern, shrink, files, module_decl, process>>

\* pc_core.py:785-806: wrappers are generated; with at least one Run the
\* semaphore and one run_with_limit coroutine per Run are created and
\* handed to asyncio.gather.
StartGather ==
    /\ pc = "built"
    /\ args.check_equivalence
    /\ runs' = [r \in DOMAIN runs |-> generate_ec_files(runs[r])]
    /\ IF runs = <<>>
       THEN /\ pc' = "done"
            /\ UNCHANGED <<tpc, sem>>
       ELSE /\ pc' = "gather"
            /\ sem' = Semaphore(PoolCap)
            /\ tpc' = [r \in DOMAIN runs |-> "created"]
    /\ UNCHANGED <<args, sw, rewrites, muxed_tree, stdout, successes,
                   consolidated, sets, overtook, applied, tern, shrink, files, module_decl, process>>

\* First step of task r (tasks start in the order gather created them):
\* `async with semaphore` either takes a slot, and run_jasper starts the
\* prover subprocess, or queues a future and suspends.
TaskStart(r) ==
    /\ pc = "gather"
    /\ r \in DOMAIN tpc
    /\ tpc[r] = "created"
    /\ \A q \in 1..(r - 1) : tpc[q] # "created"
    /\ IF ~locked(sem)
       THEN /\ sem' = [sem EXCEPT !.value = @ - 1]
            /\ tpc' = [tpc EXCEPT ![r] = "running"]
       ELSE /\ sem' = [sem EXCEPT !.waiters = Append(@, [run |-> r, done |-> FALSE])]
            /\ tpc' = [tpc EXCEPT ![r] = "waiting"]
    /\ UNCHANGED <<pc, args, sw, rewrites, muxed_tree, runs, stdout,
                   successes, consolidated, sets, overtook, applied, tern, shrink, files, module_decl, process>>

\* Task r resumes after its future was set: it leaves the queue, passes the
\* wake-up on if a slot is free, and run_jasper starts the subprocess.
TaskResume(r) ==
    /\ pc = "gather"
    /\ r \in DOMAIN tpc
    /\ tpc[r] = "waiting"
    /\ \E i \in DOMAIN sem.waiters : sem.waiters[i] = [run |-> r, done |-> TRUE]
    /\ LET left == [sem EXCEPT !.waiters = SelectSeq(@, LAMBDA w : w.run # r)]
       IN  sem' = IF left.value > 0 THEN wake_up_next(left) ELSE left
    /\ tpc' = [tpc EXCEPT ![r] = "running"]
    /\ UNCHANGED <<pc, args, sw, rewrites, muxed_tree, runs, stdout,
                   successes, consolidated, sets, overtook, applied, tern, shrink, files, module_decl, process>>

\* What the prover subprocess of run r prints before it exits: its lines,
\* in emission order (line k of run r is <<r, k>>).
Stdout(r) == [k \in 1..MaxLines |-> <<r, k>>]

\* An outcome that treats only the script's own exit 1 as a failure.
record_outcome_fails_on_one(run, code, output) ==
    [run EXCEPT !.valid = (code # 1), !.output = output]

\* ec.py:262-273: `output` is the concatenation of the lines read from the
\* subprocess; after process.wait() the outcome is stored on the Run.
record_outcome(run, code, output) ==
    [run EXCEPT !.valid = (code = 0), !.output = output]

\* A task that stores the outcome on the Run the loop variable was last
\* bound to (the last of the list) instead of on its own Run.
TaskFinish_on_last_run(r, code) ==
    /\ pc = "gather"
    /\ r \in DOMAIN tpc
    /\ tpc[r] = "running"
    /\ runs' = [runs EXCEPT ![Len(runs)] = record_outcome(@, code, Stdout(r))]
    /\ sem' = release(sem)
    /\ tpc' = [tpc EXCEPT ![r] = "done"]
    /\ overtook' = (overtook \/ \E q \in 1..(r - 1) : tpc[q] # "done")
    /\ UNCHANGED <<pc, args, sw, rewrites, muxed_tree,
                   stdout, successes, consolidated, sets, applied, tern, shrink, files, module_decl, process>>

\* The subprocess of run r prints its lines and exits with `code`;
\* run_jasper returns and `async with` releases the slot.
TaskFinish(r, code) ==
    /\ pc = "gather"
    /\ r \in DOMAIN tpc
    /\ tpc[r] = "running"
    /\ runs' = [runs EXCEPT ![r] = record_outcome(@, code, Stdout(r))]
    /\ sem' = release(sem)
    /\ tpc' = [tpc EXCEPT ![r] = "done"]
    /\ overtook' = (overtook \/ \E q \in 1..(r - 1) : tpc[q] # "done")
    /\ UNCHANGED <<pc, args, sw, rewrites, muxed_tree,
                   stdout, successes, consolidated, sets, applied, tern, shrink, files, module_decl, process>>

\* A summary whose every line reports the outcome of the Run handled last.
summary_stale_outcome(rs) ==
    [r \in DOMAIN rs |->
        <<rs[r].wrapper_fname, IF rs[Len(rs)].valid THEN "PASS" ELSE "FAIL">>]

\* pc_core.py:810-822: one summary line per Run, in the order of `runs`.
summary(rs) ==
    [r \in DOMAIN rs |->
        <<rs[r].wrapper_fname, IF rs[r].valid THEN "PASS" ELSE "FAIL">>]

\* A gather that gives up waiting once the first task has finished.
WriteSummary_on_first_result ==
    /\ pc = "gather"
    /\ \E r \in DOMAIN tpc : tpc[r] = "done"
    /\ successes' = summary(runs)
    /\ pc' = "summarised"
    /\ UNCHANGED <<args, sw, rewrites, muxed_tree, runs, tpc, sem, stdout,
                   consolidated, sets, overtook, applied, tern, shrink, files, module_decl, process>>

WriteSummary ==
    /\ pc = "gather"
    /\ \A r \in DOMAIN tpc : tpc[r] = "done"
    /\ successes' = summary(runs)
    /\ pc' = "summarised"
    /\ UNCHANGED <<args, sw, rewrites, muxed_tree, runs, tpc, sem, stdout,
                   consolidated, sets, overtook, applied, tern, shrink, files, module_decl, process>>

\* pc_core.py:826-840: the consolidated design is computed and written.
\* A consolidation that rewrites the base design itself.
Consolidate_in_place ==
    /\ pc = "summarised"
    /\ sw' = consolidate_runs(sw, runs)
    /\ consolidated' = sw'
    /\ stdout' = stdout \o consolidate_warnings(sw, runs)
    /\ pc' = "done"
    /\ UNCHANGED <<args, rewrites, muxed_tree, runs, tpc, sem, successes,
                   sets, overtook, applied, tern, shrink, files, module_decl, process>>

\* pc_core.py:839-840: consolidate_runs(sw, runs)
Consolidate ==
    /\ pc = "summarised"
    /\ consolidated' = consolidate_runs(sw, runs)
    /\ stdout' = stdout \o consolidate_warnings(sw, runs)
    /\ pc' = "done"
    /\ UNCHANGED <<args, sw, rewrites, muxed_tree, runs, tpc, sem, successes,
                   sets, overtook, applied, tern, shrink, files, module_decl, process>>

\* ----------------------------------------------- run_jasper, line by line
\* The coroutines of run_with_limit at the grain of their awaits: the
\* subprocess of each Run writes its lines into its own pipe and exits,
\* `async for line in process.stdout` takes one line at a time, and after
\* end of file and process.wait() the outcome is stored on the Run.
\* process[r] = [emitted, pipe, exited, returncode, output]: lines the
\* subprocess has written so far, lines not yet read, whether it has closed
\* the pipe and exited, its exit code, and the coroutine's local `output`.
NoProcess == [emitted |-> 0, pipe |-> <<>>, exited |-> FALSE, returncode |-> 0,
              output |-> <<>>]

\* A reader that keeps the text read so far in one place for all Runs.
read_line_shared_output(p, r) ==
    [p EXCEPT ![1].output = Append(@, Head(p[r].pipe)),
              ![r].pipe = Tail(@)]

\* ec.py:265-268, one iteration: output += line.decode()
read_line(p, r) ==
    [p EXCEPT ![r].output = Append(@, Head(p[r].pipe)),
              ![r].pipe = Tail(@)]

\* Designs with one if statement: the two Runs of its Rewrite.
JgInit ==
    /\ pc = "gather"
    /\ args = [remove_if_conditionals |-> TRUE,
               remove_ternary_conditionals |-> FALSE,
               check_equivalence |-> TRUE]
    /\ sw \in {d \in Designs : Len(d.nodes) = 1 /\ d.nodes[1].kind = "if"}
    /\ rewrites = remove_if_conditionals(sw, EmptyRewriteSet)
    /\ runs = [r \in DOMAIN BuildRuns(sw, rewrites.rewrites) |->
                  generate_ec_files(BuildRuns(sw, rewrites.rewrites)[r])]
    /\ tpc = [r \in DOMAIN runs |-> "created"]
    /\ sem = Semaphore(PoolCap)
    /\ process = [r \in DOMAIN runs |-> NoProcess]
    /\ muxed_tree = NoTree
    /\ stdout = <<>>
    /\ successes = <<>>
    /\ consolidated = NoTree
    /\ sets = RSIdle
    /\ overtook = FALSE
    /\ applied = NoApply
    /\ files = NoFiles
    /\ module_decl = NoSearch
    /\ shrink = NoShrinkCall
    /\ tern = NoTernaryCall

jasperFrame == <<pc, args, sw, rewrites, muxed_tree, stdout, successes,
                 consolidated, sets, overtook, applied, tern, shrink, files,
                 module_decl>>

\* The subprocess of run r prints line k.
JgEmit(r, k) ==
    /\ r \in DOMAIN tpc
    /\ tpc[r] = "running"
    /\ ~process[r].exited
    /\ k = process[r].emitted + 1
    /\ process' = [process EXCEPT ![r].emitted = k,
                                  ![r].pipe = Append(@, <<r, k>>)]
    /\ UNCHANGED <<runs, tpc, sem>>
    /\ UNCHANGED jasperFrame

\* The subprocess of run r exits with `code`; its end of the pipe closes.
JgExit(r, code) ==
    /\ r \in DOMAIN tpc
    /\ tpc[r] = "running"
    /\ ~process[r].exited
    /\ process' = [process EXCEPT ![r].exited = TRUE, ![r].returncode = code]
    /\ UNCHANGED <<runs, tpc, sem>>
    /\ UNCHANGED jasperFrame

\* ec.py:265-268: the coroutine of run r resumes with the next line.
JgReadLine(r) ==
    /\ r \in DOMAIN tpc
    /\ tpc[r] = "running"
    /\ process[r].pipe # <<>>
    /\ process' = read_line(process, r)
    /\ UNCHANGED <<runs, tpc, sem>>
    /\ UNCHANGED jasperFrame

\* ec.py:270-274 and the end of `async with`: at end of file the loop
\* ends, process.wait() returns, the outcome is stored and the slot freed.
JgStore(r) ==
    /\ r \in DOMAIN tpc
    /\ tpc[r] = "running"
    /\ process[r].exited
    /\ process[r].pipe = <<>>
    /\ runs' = [runs EXCEPT ![r] = record_outcome(@, process[r].returncode,
                                                  process[r].output)]
    /\ sem' = release(sem)
    /\ tpc' = [tpc EXCEPT ![r] = "done"]
    /\ UNCHANGED process
    /\ UNCHANGED jasperFrame

\* ------------------------------------------- consolidate_runs, called twice
\* consolidate_runs on a base design and Runs that carry their results,
\* called a second time with the same arguments.  The Runs are those of
\* both categories' Rewrites, each with either outcome.
ResultsOf(rs) ==
    {[r \in DOMAIN rs |-> [rs[r] EXCEPT !.valid = v[r]]] :
        v \in [DOMAIN rs -> BOOLEAN]}

CoInit ==
    /\ pc = "summarised"
    /\ args = [remove_if_conditionals |-> TRUE,
               remove_ternary_conditionals |-> TRUE,
               check_equivalence |-> TRUE]
    /\ sw \in Designs
    /\ rewrites = remove_ternary_conditionals(sw,
                      remove_if_conditionals(sw, EmptyRewriteSet))
    /\ runs \in ResultsOf(BuildRuns(sw, rewrites.rewrites))
    /\ muxed_tree = NoTree
    /\ tpc = <<>>
    /\ sem = Semaphore(0)
    /\ stdout = <<>>
    /\ successes = <<>>
    /\ consolidated = NoTree
    /\ sets = RSIdle
    /\ overtook = FALSE
    /\ applied = NoApply
    /\ process = <<>>
    /\ module_decl = NoSearch
    /\ files = NoFiles
    /\ shrink = NoShrinkCall
    /\ tern = NoTernaryCall

\* consolidate_runs(sw, runs) once more
ConsolidateAgain ==
    /\ pc = "done"
    /\ consolidated' = consolidate_runs(sw, runs)
    /\ stdout' = stdout \o consolidate_warnings(sw, runs)
    /\ pc' = "consolidated_again"
    /\ UNCHANGED <<args, sw, rewrites, muxed_tree, runs, tpc, sem, successes,
                   sets, overtook, applied, tern, shrink, files, module_decl, process>>

CoNext == Consolidate \/ ConsolidateAgain

SpecConsolidate == CoInit /\ [][CoNext]_vars

MaxRuns == 2 * MaxSites
\* Exit codes of the prover command: 0 and 1 are the script's own exits
\* (ec.py:241-249), 2 stands for any other exit of the shell or the tool.
ExitCodes == {0, 1, 2}

Next ==
    \/ LocateSites
    \/ MuxEncode
    \/ MakeRuns
    \/ SkipEquivalence
    \/ StartGather
    \/ \E r \in 1..MaxRuns : TaskStart(r)
    \/ \E r \in 1..MaxRuns : TaskResume(r)
    \/ \E r \in 1..MaxRuns, code \in ExitCodes : TaskFinish(r, code)
    \/ WriteSummary
    \/ Consolidate

Spec == Init /\ [][Next]_vars

\* The event loop runs a ready task whenever there is one, and (the
\* assumption of the progress claims) every started prover subprocess exits:
\* main() does not stop while one of its steps is possible.
FairSpec == Spec /\ WF_vars(Next)

\* run_jasper, line by line: the tasks start as in main().
JgNext ==
    \/ \E r \in 1..MaxRuns : TaskStart(r)
    \/ \E r \in 1..MaxRuns, k \in {1, 2} : JgEmit(r, k)
    \/ \E r \in 1..MaxRuns, code \in ExitCodes : JgExit(r, code)
    \/ \E r \in 1..MaxRuns : JgReadLine(r)
    \/ \E r \in 1..MaxRuns : JgStore(r)

SpecJasper == JgInit /\ [][JgNext]_vars

\* ------------------------------------------------ RewriteSet properties
Range(rw) == rw.start_index .. (rw.start_index + rw.num_selections - 1)

Partitioned(rs) ==
    /\ \A i \in DOMAIN rs.rewrites, j \in DOMAIN rs.rewrites :
          i # j => Range(rs.rewrites[i]) \cap Range(rs.rewrites[j]) = {}
    /\ UNION {Range(rs.rewrites[i]) : i \in DOMAIN rs.rewrites}
          = 0 .. (SumSel(rs.rewrites) - 1)
    /\ rs.current_index = SumSel(rs.rewrites)

\* C4: in a RewriteSet built from RewriteSet() by add_rewrite calls alone, the
\* i-th rewrite's start_index is the sum of the num_selections of the rewrites
\* added before it, and current_index is the sum of all of them.
C4_IndexAdditive ==
    \A x \in SetNames :
        ~sets[x].merged =>
            /\ \A i \in DOMAIN sets[x].rs.rewrites :
                  sets[x].rs.rewrites[i].start_index
                      = SumSel(Prefix(sets[x].rs.rewrites, i - 1))
            /\ sets[x].rs.current_index = SumSel(sets[x].rs.rewrites)

C4_Witness ==
    /\ ~sets["a"].merged
    /\ Len(sets["a"].rs.rewrites) = 3
    /\ sets["a"].rs.rewrites[1].num_selections = 2
    /\ sets["a"].rs.rewrites[2].num_selections = 1
    /\ sets["a"].rs.rewrites[3].start_index = 3

\* C5: in every RewriteSet reachable by add_rewrite and merge calls the index
\* ranges of the rewrites are pairwise disjoint and cover [0, total), and the
\* next index handed out is total.
C5_AlwaysPartitioned == \A x \in SetNames : Partitioned(sets[x].rs)

\* ---------------------------------------------------- pipeline properties
\* main() went through the prover jobs and wrote the consolidated design.
ConsolidationDone == pc = "done" /\ tpc # <<>>

RunsOfSite(i) == {r \in DOMAIN runs : matcher(runs[r].rewrite, sw.nodes[i])}

PassedRunsOfSite(i) == {r \in RunsOfSite(i) : runs[r].valid}

FirstPassed(i) == CHOOSE r \in PassedRunsOfSite(i) :
                      \A q \in PassedRunsOfSite(i) : r <= q

\* C1: the consolidated design differs from the base design at a site only
\* if some Run of that site's Rewrite passed; a site whose Runs all failed
\* is left unchanged.
C1_ChangedOnlyIfPassed ==
    ConsolidationDone =>
        \A i \in DOMAIN sw.nodes :
            consolidated.nodes[i] # sw.nodes[i] => PassedRunsOfSite(i) # {}

\* C2: when exactly one Run of a Rewrite passed, the consolidated design
\* holds, at that site, the branch that Run proved (the site as it is in
\* that Run's output design).
C2_SinglePassedBranchChosen ==
    ConsolidationDone =>
        \A i \in DOMAIN sw.nodes :
            Cardinality(PassedRunsOfSite(i)) = 1 =>
                \A r \in PassedRunsOfSite(i) :
                    consolidated.nodes[i] = runs[r].output_tree.nodes[i]

\* C3: when more than one Run of a Rewrite passed, the consolidated design
\* holds the branch of the first-registered passing Run and a warning was
\* printed for the site.
C3_FirstPassedBranchWins ==
    ConsolidationDone =>
        \A i \in DOMAIN sw.nodes :
            Cardinality(PassedRunsOfSite(i)) > 1 =>
                /\ consolidated.nodes[i]
                       = runs[FirstPassed(i)].output_tree.nodes[i]
                /\ \E k \in DOMAIN stdout : stdout[k][2] = i

Running == {r \in DOMAIN tpc : tpc[r] = "running"}

\* C6: at every instant at most PoolCap Runs hold a slot (their prover
\* subprocess is started and not finished), however many Runs there are.
C6_PoolBounded == Cardinality(Running) <= PoolCap

C6_Witness ==
    /\ Cardinality(Running) = PoolCap
    /\ \E r \in DOMAIN tpc : tpc[r] = "waiting"

\* C7: when every prover subprocess exits, every submitted Run gets a slot,
\* completes and has its outcome recorded; no waiting Run is starved.
C7_EveryRunCompletes ==
    (pc = "gather") ~> (pc = "gather" /\ \A r \in DOMAIN tpc : tpc[r] = "done")

C7_Witness ==
    /\ Len(runs) > PoolCap
    /\ \A r \in DOMAIN tpc : tpc[r] = "done"
    /\ pc = "gather"

\* C8: the summary has exactly one entry per submitted Run, in submission
\* order whatever the completion order, and entry r names Run r's wrapper
\* and reports the outcome of Run r's own subprocess.
C8_SummaryInSubmissionOrder ==
    pc \in {"summarised", "done"} /\ tpc # <<>> =>
        /\ Len(successes) = Len(runs)
        /\ \A r \in DOMAIN runs :
              /\ successes[r][1] = sw.name \o <<"pc", r - 1, "wrapper">>
              /\ successes[r][1] = runs[r].wrapper_fname
              /\ successes[r][2] = IF runs[r].valid THEN "PASS" ELSE "FAIL"

C8_Witness ==
    /\ pc = "summarised"
    /\ overtook
    /\ Len(successes) = 2 * MaxSites
    /\ successes[1][2] = "FAIL"
    /\ successes[2][2] = "PASS"
    /\ successes[3][2] = "PASS"
    /\ successes[4][2] = "FAIL"

\* C9: a Run's outcome is written exactly once, in the step in which its
\* task finishes: valid and output change in no other step, a finished task
\* stays finished, and a started task is never started again.
C9_OutcomeWrittenOnce ==
    [][\A r \in (DOMAIN runs) \cap (DOMAIN runs') :
          /\ (runs'[r].valid # runs[r].valid \/ runs'[r].output # runs[r].output)
                => (r \in DOMAIN tpc /\ tpc[r] = "running" /\ tpc'[r] = "done")
          /\ (r \in DOMAIN tpc /\ tpc[r] = "done")
                => (tpc'[r] = "done" /\ runs'[r].valid = runs[r].valid
                                     /\ runs'[r].output = runs[r].output)
          /\ (r \in DOMAIN tpc /\ tpc[r] = "running")
                => tpc'[r] \in {"running", "done"}]_vars

C9_Witness ==
    /\ pc = "done"
    /\ \E r \in DOMAIN runs : runs[r].valid /\ runs[r].output = Stdout(r)
    /\ \E r \in DOMAIN runs : ~runs[r].valid /\ runs[r].output = Stdout(r)

\* C10: a Run is recorded as pass exactly when its prover subprocess exited
\* with code 0, and after a non-zero exit the orchestrator still finishes the
\* remaining Runs and writes the summary and the consolidated design.
C10_NonZeroExitIsFail ==
    /\ [][\A r \in 1..MaxRuns, code \in ExitCodes :
             TaskFinish(r, code) => (runs'[r].valid <=> code = 0)]_vars
    /\ (\E r \in DOMAIN tpc : tpc[r] = "done" /\ ~runs[r].valid)
          ~> (/\ pc = "done"
              /\ \A r \in DOMAIN tpc : tpc[r] = "done"
              /\ Len(successes) = Len(runs)
              /\ consolidated.name = sw.name)

C10_Witness ==
    /\ pc = "done"
    /\ \E r \in DOMAIN tpc : ~runs[r].valid /\ successes[r][2] = "FAIL"
    /\ \E r \in DOMAIN tpc : runs[r].valid /\ successes[r][2] = "PASS"
    /\ consolidated.name = sw.name

\* Futures of the semaphore that were set and whose task has not resumed:
\* each of them has a slot reserved.
HandedOver == {i \in DOMAIN sem.waiters : sem.waiters[i].done}

\* C11: there is no timeout and no cancellation.  While the prover subprocess
\* of a Run has not exited the Run keeps its slot (free slots + reserved slots
\* + running Runs is always the cap), the summary and the consolidated design
\* are not written, and a Run leaves the running state only by the exit of
\* its own subprocess; while as many subprocesses as the cap are running no
\* other Run starts.
C11_StalledJobKeepsSlot ==
    /\ [](tpc # <<>> =>
            sem.value + Cardinality(HandedOver) + Cardinality(Running) = PoolCap)
    /\ []((\E r \in DOMAIN tpc : tpc[r] = "running") =>
            pc = "gather" /\ successes = <<>> /\ consolidated = NoTree)
    /\ [][\A r \in DOMAIN tpc :
             /\ (tpc[r] = "running" /\ tpc'[r] # "running") =>
                    /\ tpc'[r] = "done"
                    /\ \E code \in ExitCodes :
                          runs'[r] = record_outcome(runs[r], code, Stdout(r))
             /\ (Cardinality(Running) = PoolCap /\ tpc[r] # "running") =>
                    tpc'[r] # "running"]_vars

C11_Witness ==
    /\ pc = "gather"
    /\ Cardinality(Running) = PoolCap
    /\ \E r \in DOMAIN tpc : tpc[r] = "done"
    /\ \E r \in DOMAIN tpc : tpc[r] = "waiting" /\ r > PoolCap + 1
    /\ successes = <<>>
    /\ consolidated = NoTree

\* C12: after the mux step every located if statement and ternary of the
\* design has its condition, and nothing else, replaced by the guard
\* select_hi | (!select_lo & condition) over the select pair
\* (start_index, start_index + 1) of its own Rewrite and its own condition:
\* select_hi = 1 makes the guard true, select_hi = 0 with select_lo = 1 makes
\* it false, and with both 0 the guard holds exactly when the original
\* condition holds.
C12_GuardOverridesOwnCondition ==
    pc \notin {"start", "located"} =>
        \A k \in DOMAIN rewrites.rewrites :
            LET rw == rewrites.rewrites[k]
                i  == rw.target
            IN  /\ i \in DOMAIN muxed_tree.nodes
                /\ muxed_tree.nodes[i].node = sw.nodes[i]
                /\ Len(muxed_tree.nodes[i].pred) = 1
                /\ muxed_tree.nodes[i].pred[1].lo = rw.start_index
                /\ muxed_tree.nodes[i].pred[1].hi = rw.start_index + 1
                /\ muxed_tree.nodes[i].pred[1].wraps = i
                /\ \A c \in CondValues :
                      /\ \A lo \in {0, 1} : Truthy(eval_mux_guard(1, lo, c))
                      /\ ~Truthy(eval_mux_guard(0, 1, c))
                      /\ Truthy(eval_mux_guard(0, 0, c)) <=> Truthy(c)

\* C13: with n located sites over the enabled categories the mux-encoded
\* design is produced and its port list is the base design's port list with
\* exactly 2n select inputs in front of it; with n = 0 the port list is the
\* base design's.
C13_TwoSelectPortsPerSite ==
    pc \notin {"start", "located"} =>
        LET n == Len(rewrites.rewrites)
        IN  /\ pc # "crashed"
            /\ IF n = 0
               THEN muxed_tree.ports = sw.ports
               ELSE /\ Len(muxed_tree.ports) = Len(sw.ports) + 1
                    /\ Tail(muxed_tree.ports) = sw.ports
                    /\ Len(muxed_tree.ports[1].names) = 2 * n
                    /\ \A a, b \in 1..(2 * n) :
                          a # b => muxed_tree.ports[1].names[a]
                                      # muxed_tree.ports[1].names[b]

\* The nodes of the design that more than one rewrite's mux matcher accepts.
Conflicts == {i \in DOMAIN sw.nodes : Len(MuxMatches(rewrites, sw.nodes[i])) > 1}

\* C14: when apply_muxes meets a node that more than one Rewrite's mux
\* matcher accepts, it does not raise, it logs a warning for that node, the
\* node gets the guard of the first-registered matching Rewrite, and every
\* other matched node of the design still gets its guard.
C14_MuxConflictWarnedAndResolved ==
    (pc \in {"muxed", "crashed"} /\ Conflicts # {}) =>
        /\ pc = "muxed"
        /\ \A i \in Conflicts :
              /\ \E k \in DOMAIN stdout : stdout[k][2] = i
              /\ LET rw == MuxMatches(rewrites, sw.nodes[i])[1]
                 IN  muxed_tree.nodes[i].pred =
                        <<get_mux_replacement(rw, sw.nodes[i], rw.start_index)>>
        /\ \A i \in DOMAIN sw.nodes :
              MuxMatches(rewrites, sw.nodes[i]) # <<>> =>
                  muxed_tree.nodes[i].pred # <<>>

\* Construct q encloses construct j.
Encloses(tree, q, j) == PartHolding(tree, j, q) # "top"

\* The sites at which design b differs from design a, a site inside a
\* differing site not counted again.
DiffersAt(a, b) ==
    {j \in DOMAIN a.nodes :
        /\ a.nodes[j] # b.nodes[j]
        /\ ~\E q \in DOMAIN a.nodes :
               Encloses(a, q, j) /\ a.nodes[q] # b.nodes[q]}

C16_BaseDesignNeverMutated ==
    /\ [][sw' = sw]_vars
    /\ [](sw \in Designs)
    /\ [](\A r \in DOMAIN runs : runs[r].input_tree = sw)

C16_Witness ==
    /\ pc = "done"
    /\ Len(runs) = 2 * MaxSites
    /\ \A r \in DOMAIN runs : runs[r].output_tree.nodes # sw.nodes
    /\ muxed_tree.nodes # <<>>
    /\ consolidated.nodes # sw.nodes
    /\ consolidated.name = sw.name
    /\ \A r \in DOMAIN runs : runs[r].input_tree = sw

\* The branch-choice vector of a variant.
BranchVector(v) == [k \in DOMAIN v.rewrites |-> v.rewrites[k].branch]

\* C17: for a source with n conditional expressions remove_ternaries returns
\* exactly 2^n variants whose branch-choice vectors, one choice per located
\* node, are pairwise distinct; for n = 0 it returns the unmodified source as
\* the only variant.
C17_TwoToTheNVariants ==
    tern.phase = "returned" =>
        LET n == SumTernaries(tern.forest)
        IN  /\ Len(tern.variants) = 2 ^ n
            /\ \A a \in DOMAIN tern.variants :
                  /\ Len(tern.variants[a].rewrites) = n
                  /\ \A k \in 1..n :
                        tern.variants[a].rewrites[k].branch \in {"true", "false"}
            /\ \A a, b \in DOMAIN tern.variants :
                  a # b => BranchVector(tern.variants[a])
                              # BranchVector(tern.variants[b])
            /\ n = 0 => tern.variants = <<[source |-> tern.source_text,
                                           rewrites |-> <<>>]>>

C17_Witness ==
    /\ tern.phase = "returned"
    /\ SumTernaries(tern.forest) = MaxTernaries
    /\ Len(tern.forest) = 2
    /\ Len(tern.variants) = 2 ^ MaxTernaries

\* The text of the expression starting at pre[i] with every conditional
\* expression replaced by the operand that the vector bv chooses for it
\* (k: the nodes met before, in the locator's order).
RECURSIVE ExpectedExpr(_, _, _, _, _)
ExpectedExpr(pre, i, k, cnt, bv) ==
    IF pre[i] = "x"
    THEN [next |-> i + 1, text |-> <<AtomNames[cnt + 1]>>, k |-> k, cnt |-> cnt + 1]
    ELSE LET Operand(j, kk, cc) ==
                 IF pre[j] = "T"
                 THEN [ExpectedExpr(pre, j, kk, cc, bv) EXCEPT
                          !.text = <<"(">> \o @ \o <<")">>]
                 ELSE ExpectedExpr(pre, j, kk, cc, bv)
             P == Operand(i + 1, k + 1, cnt)
             L == Operand(P.next, P.k, P.cnt)
             R == Operand(L.next, L.k, L.cnt)
         IN  [next |-> R.next,
              text |-> IF bv[k + 1] = "true" THEN L.text ELSE R.text,
              k |-> R.k, cnt |-> R.cnt]

RECURSIVE ExpectedSource(_, _, _, _)
ExpectedSource(f, k, cnt, bv) ==
    IF f = <<>> THEN <<>>
    ELSE LET e == ExpectedExpr(f[1], 1, k, cnt, bv)
         IN  e.text \o <<";">> \o ExpectedSource(Tail(f), e.k, e.cnt, bv)

\* C18: every substitution of remove_ternaries is made at a span of the
\* working text that still holds the located node's original text (the
\* offsets taken once from the unmodified source are still right), and every
\* variant is the source with each located node replaced by the operand its
\* branch choice names.
C18_OffsetsStayValid ==
    /\ [][TvSubstitute =>
             PySlice(tern.new_source, tern.info[tern.i].start,
                     tern.info[tern.i].end) = tern.info[tern.i].original]_vars
    /\ [](\A a \in DOMAIN tern.variants :
             tern.variants[a].source =
                 ExpectedSource(tern.forest, 0, 0,
                                BranchVector(tern.variants[a])))

\* C19: in the result of shrink_bits_mux the left-hand side of every
\* assignment (continuous, blocking or non-blocking) is as it was before the
\* read-mux pass, and every read of a shadowed identifier in an assignment
\* of the input design is rewritten into the mux.
C19_LeftHandSidesUntouched ==
    shrink.phase = "returned" =>
        \A j \in DOMAIN shrink.out :
            shrink.out[j].item = "assign" =>
                /\ shrink.out[j].lhs = shrink.declared[j].lhs
                /\ (~shrink.out[j].inserted
                       /\ shrink.out[j].rhs.name \in shrink.old_decl_set)
                      => shrink.out[j].rhs.mux

\* The number of bits of a value of the type: a packed dimension [a:b] has
\* |a - b| + 1 bits, whichever bound is written first.
BitsOf(type) ==
    IF type.dims = <<>> THEN 1
    ELSE (IF type.dims[1] >= type.dims[2] THEN type.dims[1] - type.dims[2]
                                          ELSE type.dims[2] - type.dims[1]) + 1

\* The items the first pass inserted for the declaration d.
ShadowDeclsOf(d) ==
    {q \in DOMAIN shrink.declared :
        /\ shrink.declared[q].inserted
        /\ shrink.declared[q].item = "decl"
        /\ shrink.declared[q].names = [k \in DOMAIN d.names |-> papercut_name(d.names[k])]}

ShadowAssignsOf(d) ==
    {q \in DOMAIN shrink.declared :
        /\ shrink.declared[q].inserted
        /\ shrink.declared[q].item = "assign"
        /\ shrink.declared[q].akind = "continuous"
        /\ \E k \in DOMAIN d.names :
              shrink.declared[q].lhs.name = papercut_name(d.names[k])}

\* C20: for each integer data declaration of the input that is wider than
\* one bit, shrink_bits_mux inserts exactly one shadow declaration, of the
\* same identifiers suffixed `_papercut` and one bit narrower, and exactly
\* one continuous assignment; for a declaration one bit wide it inserts
\* nothing.
C20_OneShadowPerWideDeclaration ==
    shrink.phase \in {"declared", "returned"} =>
        \A j \in DOMAIN shrink.body :
            (shrink.body[j].item = "decl" /\ shrink.body[j].type.integer) =>
                IF BitsOf(shrink.body[j].type) > 1
                THEN /\ Cardinality(ShadowDeclsOf(shrink.body[j])) = 1
                     /\ \A q \in ShadowDeclsOf(shrink.body[j]) :
                           /\ shrink.declared[q].type.integer
                           /\ BitsOf(shrink.declared[q].type)
                                 = BitsOf(shrink.body[j].type) - 1
                     /\ Cardinality(ShadowAssignsOf(shrink.body[j])) = 1
                ELSE /\ ShadowDeclsOf(shrink.body[j]) = {}
                     /\ ShadowAssignsOf(shrink.body[j]) = {}

\* The shadow was forced to the unknown/high-impedance sentinel: every bit
\* of it is x or z.
Sentinel(s) == \A k \in DOMAIN s : s[k] \in {"x", "z"}

\* C21: a read of a shadowed identifier, rewritten by shrink_bits_mux,
\* yields the value of the shadow unless the shadow holds the
\* unknown/high-impedance sentinel, and the value of the original in that
\* case only; a shadow holding 0 is preferred over the original.
C21_ShadowPreferredUnlessSentinel ==
    shrink.phase = "evaluated" =>
        IF Sentinel(shrink.probe.shadow)
        THEN shrink.probe.value = shrink.probe.orig
        ELSE shrink.probe.value
                = zero_extend(shrink.probe.shadow, Len(shrink.probe.orig))

\* The flag that selects a category.
FlagOf(c) ==
    IF c = "range" THEN args.shrink_bits
    ELSE IF c = "case" THEN args.delete_case_branch
    ELSE IF c = "if" THEN args.remove_if_conditionals
    ELSE args.remove_ternary_conditionals

\* The sites registered for category c: the targets of its Rewrites.
RegisteredOf(c) ==
    {rewrites.rewrites[k].target :
        k \in {q \in DOMAIN rewrites.rewrites : rewrites.rewrites[q].kind = c}}

\* C22: once main has gone through the four flags, the Rewrites registered
\* are exactly the located sites of the enabled categories, one Rewrite per
\* site, whatever the other flags are.
C22_FlagsEnableTheirCategory ==
    pc = "located" =>
        /\ \A c \in Categories :
              RegisteredOf(c) =
                 IF FlagOf(c)
                 THEN {sw.nodes[j].src :
                          j \in {q \in DOMAIN sw.nodes : sw.nodes[q].kind = c}}
                 ELSE {}
        /\ \A k, q \in DOMAIN rewrites.rewrites :
              (rewrites.rewrites[k].target = rewrites.rewrites[q].target) => k = q

\* C23: a failed write of an output artifact is logged and does not abort
\* the batch: when main() ends it was not aborted, every failed write was
\* logged, and every other planned artifact was written.
C23_WriteFailureLoggedBatchContinues ==
    files.at \in {"done", "aborted"} =>
        /\ ~files.aborted
        /\ files.failed \subseteq files.logged
        /\ Planned(files.n, args.check_equivalence) \ files.failed
              \subseteq files.written

\* The sites a category's visitor collects on a design Rewrite.apply
\* returned: the constructs of that kind still in its text.
Relocated(tree, kind) ==
    {j \in DOMAIN tree.nodes :
        tree.nodes[j].kind = kind /\ tree.nodes[j].part = "whole"}

\* C24: Rewrite.apply with branch 1 or 2 on a located site, followed by
\* locating the same category on the result, yields exactly one site fewer
\* than locating it on the input, also for a site that contains other sites
\* of the category or is contained in one.
C24_ApplyRemovesExactlyOneSite ==
    (applied.k # 0 /\ applied.index # 0) =>
        LET kind == rewrites.rewrites[applied.k].kind
        IN  Cardinality(Relocated(applied.tree, kind))
               = Cardinality(Relocated(sw, kind)) - 1

C26_ModuleFoundWhereverItSits ==
    module_decl.result \notin {"idle", "called"} =>
        IF \E i \in DOMAIN module_decl.tree : module_decl.tree[i].kind = "module"
        THEN /\ module_decl.result = "returned"
             /\ module_decl.tree[module_decl.node].kind = "module"
        ELSE module_decl.result \in {"ValueError", "TypeError"}

\* The select signals the guard of node i of the mux-encoded design refers to.
GuardNames(i) ==
    IF muxed_tree.nodes[i].pred = <<>> THEN {}
    ELSE {<<"pc_sel", muxed_tree.nodes[i].pred[1].hi>>,
          <<"pc_sel", muxed_tree.nodes[i].pred[1].lo>>}

\* The select ports add_select_inputs declared.
SelectPorts ==
    {muxed_tree.ports[1].names[k] : k \in DOMAIN muxed_tree.ports[1].names}

\* C27: in the mux-encoded design the select signals the guards refer to
\* are exactly the select ports that were added, and each added port is
\* referred to by exactly one guard.
C27_GuardsUseExactlyTheSelectPorts ==
    pc \notin {"start", "located", "crashed"} =>
        /\ UNION {GuardNames(i) : i \in DOMAIN muxed_tree.nodes} = SelectPorts
        /\ \A p \in SelectPorts :
              Cardinality({i \in DOMAIN muxed_tree.nodes : p \in GuardNames(i)}) = 1

\* C28: in the result of shrink_bits_mux the continuous assignment that
\* binds a shadow to its original reads the original identifier itself: its
\* right-hand side was not turned into the read mux, whose condition and
\* first operand are the shadow being assigned.
C28_ShadowBindingReadsOriginal ==
    shrink.phase \in {"returned", "evaluated"} =>
        \A j \in DOMAIN shrink.out :
            (shrink.out[j].item = "assign" /\ shrink.out[j].inserted) =>
                /\ shrink.out[j].lhs.name = papercut_name(shrink.out[j].rhs.name)
                /\ ~shrink.out[j].rhs.mux

\* The identifiers whose reads (or writes) the second pass replaced by a mux.
MuxedNames ==
    {shrink.out[j].rhs.name :
        j \in {q \in DOMAIN shrink.out :
                 shrink.out[q].item = "assign" /\ shrink.out[q].rhs.mux}}
    \cup {shrink.out[j].lhs.name :
        j \in {q \in DOMAIN shrink.out :
                 shrink.out[q].item = "assign" /\ shrink.out[q].lhs.mux}}

\* C29: in the result of shrink_bits_mux every shadow a mux refers to is
\* declared and is bound to its original by a continuous assignment, also
\* when one declaration declares several identifiers.
C29_EveryMuxedShadowDeclaredAndBound ==
    shrink.phase \in {"returned", "evaluated"} =>
        \A n \in MuxedNames :
            /\ \E j \in DOMAIN shrink.out :
                  /\ shrink.out[j].item = "decl"
                  /\ \E k \in DOMAIN shrink.out[j].names :
                        shrink.out[j].names[k] = papercut_name(n)
            /\ \E j \in DOMAIN shrink.out :
                  /\ shrink.out[j].item = "assign"
                  /\ shrink.out[j].akind = "continuous"
                  /\ shrink.out[j].lhs.name = papercut_name(n)
                  /\ shrink.out[j].rhs.name = n

\* The lines the subprocess of run r has printed, in emission order.
EmittedBy(r) == [k \in 1..process[r].emitted |-> <<r, k>>]

\* C30: under every interleaving of the concurrent Runs, the step that
\* completes a Run writes that Run's valid and output and nothing else: the
\* other Runs, the Run's other fields and the base design stay as they
\* were; the output stored is the sequence of lines the Run's own
\* subprocess printed, in the order it printed them; and no other step
\* changes a Run or the base design.
C30_CompletionTouchesOnlyItsRun ==
    [][/\ sw' = sw
       /\ DOMAIN runs' = DOMAIN runs
       /\ \A r \in DOMAIN runs :
             IF tpc[r] = "running" /\ tpc'[r] = "done"
             THEN /\ runs'[r] = [runs[r] EXCEPT !.valid = runs'[r].valid,
                                                 !.output = runs'[r].output]
                  /\ runs'[r].output = EmittedBy(r)
                  /\ runs'[r].valid = (process[r].returncode = 0)
                  /\ \A q \in DOMAIN runs : q # r => runs'[q] = runs[q]
             ELSE runs'[r] = runs[r] \/ \E q \in DOMAIN runs :
                                           tpc[q] = "running" /\ tpc'[q] = "done"]_vars

\* Run 2 has completed, with the two lines of its subprocess stored, while
\* the coroutine of run 1 is between its first and its second line.
C30_Witness ==
    /\ Len(runs) = 2
    /\ tpc[2] = "done"
    /\ runs[2].output = <<<<2, 1>>, <<2, 2>>>>
    /\ runs[2].valid
    /\ tpc[1] = "running"
    /\ process[1].output = <<<<1, 1>>>>
    /\ process[1].pipe = <<<<1, 2>>>>
    /\ runs[1].output = <<>>

=====================
